---- MODULE Spec2Model ----
(***************************************************************************)
(* Launch session of the SEV tenant library (src/session/mod.rs), and the   *)
(* SNP attestation report with its bitfield records                        *)
(* (src/firmware/guest/types/snp.rs).                                      *)
(*                                                                         *)
(* A byte is either a literal, Lit(b) with b in 0..255, or one output byte *)
(* of a cryptographic primitive.  The primitives of the crypto provider    *)
(* (HMAC-SHA-256, SHA-256, AES-128-CTR, ECDH) are ideal: the first byte of *)
(* an output names the primitive and all of its inputs, the other bytes    *)
(* name their position, so two outputs are equal exactly when the          *)
(* primitive and all inputs are equal.  Byte strings are sequences of      *)
(* bytes, concatenation is \o, and every length is the code's length.      *)
(***************************************************************************)
EXTENDS Integers, Sequences, FiniteSets, TLC

VARIABLES sess,     \* the session value the caller owns (phase "None": no value)
          ret,      \* what the most recent call was given and what it returned
          firstOk,  \* inputs of the first verify call that succeeded
          launch,   \* the launch as the platform has measured it
          report,   \* the attestation report at hand
          vres,     \* what the most recent verification of it returned
          bf,       \* the bitfield record at hand
          bres      \* what the most recent operation on it returned

svars == <<sess, ret, firstOk, launch>>
snpvars == <<report, vres, bf, bres>>
vars == <<sess, ret, firstOk, launch, report, vres, bf, bres>>

----------------------------------------------------------------------------
(* Bounds of the model *)

MaxData == 3          \* bytes fed to one measuring session
MaxPlain == 2         \* length of a plaintext given to secret
MaxStarts == 2        \* start/start_pdh calls counted per session
MaxSets == 2          \* setter calls counted per bitfield record

----------------------------------------------------------------------------
(* Bytes and byte strings *)

Lit(b) == [f |-> "lit", v |-> b]

Lits(s) == [i \in DOMAIN s |-> Lit(s[i])]

Rep(n, x) == [i \in 1..n |-> x]

\* n output bytes of the ideal primitive tag applied to term
Out(tag, term, n) ==
    [i \in 1..n |-> IF i = 1 THEN [f |-> tag, v |-> term]
                             ELSE [f |-> "tail", v |-> <<tag, i>>]]

\* (n as u32).to_le_bytes(): the four low-order bytes of n, low byte first
LE32(n) == << Lit(n % 256), Lit((n \div 256) % 256),
              Lit((n \div 65536) % 256), Lit((n \div 16777216) % 256) >>

KeyLen == 16          \* Key::random(16)
NonceLen == 16        \* [0u8; 16]
WrapLen == 32         \* [0u8; 32]
MacLen == 32          \* HMAC-SHA-256 tag, [0u8; 32]
SharedLen == 16       \* length of the shared secret z

----------------------------------------------------------------------------
(* The crypto provider *)

HMAC(key, msg) == Out("hmac", <<key, msg>>, MacLen)

Sha256(data) == Out("sha256", <<data>>, MacLen)

\* sign::Signer over HMAC-SHA-256: new, update, sign
SignerNew(key) == [key |-> key, buf |-> <<>>]
SignerUpdate(sig, bytes) == [sig EXCEPT !.buf = @ \o bytes]
SignerSign(sig) == HMAC(sig.key, sig.buf)

\* hash::Hasher over SHA-256: new, update, finish
HasherNew == <<>>
HasherUpdate(h, bytes) == h \o bytes
HasherFinish(h) == Sha256(h)

\* One byte of AES-128-CTR output: the input byte xor the key stream byte
\* at position pos; the first byte of a key stream names its key and iv
CtrByte(p, key, iv, pos) ==
    [f |-> "ctr", v |-> IF pos = 1 THEN <<p, pos, key, iv>> ELSE <<p, pos>>]

\* symm::Crypter in AES-128-CTR mode: the key stream position advances with
\* every update; update returns the bytes written, finalize writes nothing
CrypterNew(key, iv) == [key |-> key, iv |-> iv, pos |-> 0]
CrypterUpdate(c, input) ==
    [out |-> [i \in 1..Len(input) |-> CtrByte(input[i], c.key, c.iv, c.pos + i)],
     crypter |-> [c EXCEPT !.pos = @ + Len(input)]]
\* finalize of a padding block cipher: one more block of 16 bytes
CrypterFinalize_block(c) ==
    [i \in 1..16 |-> CtrByte(Lit(16), c.key, c.iv, c.pos + i)]

CrypterFinalize(c) == <<>>

\* Encryption with a block cipher that pads to whole blocks of 16 bytes
Encrypt_padded(key, iv, data) ==
    LET u == CrypterUpdate(CrypterNew(key, iv), data)
        n == 16 - (Len(data) % 16)
    IN  u.out \o [i \in 1..n |-> CtrByte(Lit(n), key, iv, Len(data) + i)]

\* symm::encrypt: one-shot encryption
Encrypt(key, iv, data) ==
    LET u == CrypterUpdate(CrypterNew(key, iv), data)
    IN  u.out \o CrypterFinalize(u.crypter)

----------------------------------------------------------------------------
(* key::Key: key material with a KDF and a MAC *)

LabelMaster == Lits(<<115,101,118,45,109,97,115,116,101,114,45,115,101,99,114,101,116>>)
LabelKek == Lits(<<115,101,118,45,107,101,107>>)
LabelKik == Lits(<<115,101,118,45,107,105,107>>)

\* Block number ctr of the counter-mode KDF
KdfBlock(secret, ctr, len, ctx, label) ==
    HMAC(secret, LE32(ctr) \o label \o <<Lit(0)>> \o ctx \o LE32(len * 8))

RECURSIVE KdfBlocks(_, _, _, _, _, _)
KdfBlocks(secret, ctr, need, len, ctx, label) ==
    IF need <= 0 THEN <<>>
    ELSE KdfBlock(secret, ctr, len, ctx, label)
         \o KdfBlocks(secret, ctr + 1, need - MacLen, len, ctx, label)

\* Key::derive(len, ctx, label): the blocks, truncated to len bytes
derive(secret, len, ctx, label) ==
    SubSeq(KdfBlocks(secret, 1, len, len, ctx, label), 1, len)

\* Key::mac(msg)
mac(key, msg) == HMAC(key, msg)

----------------------------------------------------------------------------
(* Values the caller, the platform and the random source can supply *)

\* Outputs of the random source: 16 bytes each
RandVals == { Rep(NonceLen, Lit(0)),
              [Rep(NonceLen, Lit(0)) EXCEPT ![1] = Lit(255)] }

\* launch::sev::Policy: flags (u16) and minimum firmware version
Policies == { [flags |-> 0, major |-> 0, minor |-> 0],
              [flags |-> 1, major |-> 0, minor |-> 0] }

\* Policy::bytes: the four bytes of the struct in memory
bytes(policy) == << Lit(policy.flags % 256), Lit((policy.flags \div 256) % 256),
                    Lit(policy.major), Lit(policy.minor) >>

\* firmware::host::Build: version.major, version.minor, build
Builds == { [major |-> 0, minor |-> 18, build |-> 15],
            [major |-> 1, minor |-> 18, build |-> 15],
            [major |-> 0, minor |-> 19, build |-> 15],
            [major |-> 0, minor |-> 18, build |-> 16] }

\* launch::sev::HeaderFlags (u32) and its four bytes in memory
Flags == { 0, 1 }
flag_bytes(flags) == LE32(flags)

\* Data fed to update_data
Chunks == { <<Lit(1)>>, <<Lit(1), Lit(1)>>, <<Lit(2), Lit(3)>> }

\* Digests computed outside the session: SHA-256 of no data, of one chunk,
\* of both chunks in order, and the first with its last byte altered
Digests == { Sha256(<<>>), Sha256(<<Lit(1)>>),
             Sha256(<<Lit(1), Lit(2), Lit(3)>>),
             [Sha256(<<>>) EXCEPT ![MacLen] = Lit(0)] }

\* Nonces chosen by the platform for a measurement
MNonces == { Rep(NonceLen, Lit(79)),
             [Rep(NonceLen, Lit(79)) EXCEPT ![NonceLen] = Lit(84)] }

\* Plaintexts given to secret: every prefix of 7, 8, 9, ...
Plaintexts == { [i \in 1..n |-> Lit(6 + i)] : n \in 0..MaxPlain }

\* Ephemeral key pairs that Certificate::generate can produce
EphKeys == { "ephA", "ephB" }

\* Platform Diffie-Hellman certificates: ec says whether the certificate
\* holds a key the key agreement can use
Pdhs == { [id |-> "pdhA", ec |-> TRUE], [id |-> "pdhB", ec |-> FALSE] }

\* Certificate chains: ok says whether the chain verifies
Chains == [ok : BOOLEAN, pdh : Pdhs]

\* Chain::verify: the platform Diffie-Hellman certificate of a valid chain
chain_verify(chain) == [ok |-> chain.ok, pdh |-> chain.pdh]

\* Certificate::generate(Usage::PDH): certificate and private key
generate(eph) == [crt |-> [usage |-> "PDH", key |-> eph], prv |-> eph]

\* PrivateKey::derive: the shared secret of the key agreement
ecdh_derive(prv, pdh) ==
    [ok |-> pdh.ec, z |-> Out("ecdh", <<prv, pdh.id>>, SharedLen)]

\* What the random source does during one call that asks for n values of 16
\* bytes: it delivers all n, or it fails after delivering fewer
RngRuns(n) ==
    { [ok |-> TRUE, vals |-> v] : v \in [1..n -> RandVals] }
    \cup { [ok |-> FALSE, vals |-> v] :
             v \in UNION { [1..k -> RandVals] : k \in 0..(n - 1) } }

\* The measurement the platform computes for a launch it has seen with
\* integrity key tik, firmware build, policy, launch digest and nonce
PlatformMeasure(tik, build, policy, digest, mnonce) ==
    HMAC(tik, <<Lit(4), Lit(build.major), Lit(build.minor), Lit(build.build)>>
              \o bytes(policy) \o digest \o mnonce)

BaseTik == Rep(KeyLen, Lit(0))
BaseBuild == [major |-> 0, minor |-> 18, build |-> 15]
BasePolicy == [flags |-> 0, major |-> 0, minor |-> 0]
BaseDigest == Sha256(<<>>)
BaseMNonce == Rep(NonceLen, Lit(79))

\* Launches as the platform can have seen them: the base launch and every
\* launch that differs from it in one of the five inputs
Launches ==
    { l \in [tik : RandVals, build : Builds, policy : Policies,
             digest : Digests, mnonce : MNonces] :
        Cardinality({ k \in {"tik", "build", "policy", "digest", "mnonce"} :
            l[k] # [tik |-> BaseTik, build |-> BaseBuild, policy |-> BasePolicy,
                    digest |-> BaseDigest, mnonce |-> BaseMNonce][k] }) <= 1 }

\* launch::sev::Measurement values handed to the session: the measure the
\* platform computed for its launch, with any nonce
Measurements ==
    { [measure |-> PlatformMeasure(launch.tik, launch.build, launch.policy,
                                   launch.digest, launch.mnonce),
       mnonce |-> n] : n \in MNonces }

----------------------------------------------------------------------------
(* Session<T>: policy, tek, tik and the data of the phase *)

NoSession == [phase |-> "None"]

\* Phases in the order the transitions go through them
Rank(phase) == CASE phase = "None" -> 0
                 [] phase = "Initialized" -> 1
                 [] phase = "Measuring" -> 2
                 [] phase = "Verified" -> 3

\* A session value: data is Initialized (no data), Measuring(hasher) or
\* Verified(measurement).  via and vin record how a Verified value came to
\* be, starts counts the start calls made on the value.
Session(phase, policy, tek, tik, data, via, vin) ==
    [phase |-> phase, policy |-> policy, tek |-> tek, tik |-> tik,
     data |-> data, via |-> via, vin |-> vin, starts |-> 0]

NoInput == [digest |-> <<>>, build |-> <<>>]

\* What a call returns to the caller
Return(op, ok, err, draws, args, out) ==
    [op |-> op, ok |-> ok, err |-> err, unsafe |-> FALSE,
     draws |-> draws, args |-> args, out |-> out]

\* wrap[off..] receives the bytes of out; writing past the end panics
WriteAt(buf, off, out) ==
    [panic |-> off + Len(out) > Len(buf),
     buf |-> [i \in 1..Len(buf) |->
                 IF i > off /\ i <= off + Len(out) THEN out[i - off] ELSE buf[i]]]

\* session with tik wrapped before tek
session_tik_first(s, nonce, iv, z) ==
    LET master == derive(z, KeyLen, nonce, LabelMaster)
        kek == derive(master, KeyLen, <<>>, LabelKek)
        kik == derive(master, KeyLen, <<>>, LabelKik)
        crypter == CrypterNew(kek, iv)
        wrap0 == Rep(WrapLen, Lit(0))
        u1 == CrypterUpdate(crypter, s.tik)
        w1 == WriteAt(wrap0, 0, u1.out)
        off1 == Len(u1.out)
        u2 == CrypterUpdate(u1.crypter, s.tek)
        w2 == WriteAt(w1.buf, off1, u2.out)
        off2 == off1 + Len(u2.out)
        fin == CrypterFinalize(u2.crypter)
        w3 == WriteAt(w2.buf, off2, fin)
        off3 == off2 + Len(fin)
        wrap == w3.buf
        wmac == mac(kik, wrap)
        pmac == mac(s.tik, bytes(s.policy))
    IN  [panic |-> w1.panic \/ w2.panic \/ w3.panic \/ off3 # WrapLen,
         policy_mac |-> pmac, wrap_mac |-> wmac, wrap_tk |-> wrap,
         wrap_iv |-> iv, nonce |-> nonce]

\* Session<Initialized>::session: the session descriptor of a Start packet
session(s, nonce, iv, z) ==
    LET master == derive(z, KeyLen, nonce, LabelMaster)
        kek == derive(master, KeyLen, <<>>, LabelKek)
        kik == derive(master, KeyLen, <<>>, LabelKik)
        crypter == CrypterNew(kek, iv)
        wrap0 == Rep(WrapLen, Lit(0))
        u1 == CrypterUpdate(crypter, s.tek)
        w1 == WriteAt(wrap0, 0, u1.out)
        off1 == Len(u1.out)
        u2 == CrypterUpdate(u1.crypter, s.tik)
        w2 == WriteAt(w1.buf, off1, u2.out)
        off2 == off1 + Len(u2.out)
        fin == CrypterFinalize(u2.crypter)
        w3 == WriteAt(w2.buf, off2, fin)
        off3 == off2 + Len(fin)
        wrap == w3.buf
        wmac == mac(kik, wrap)
        pmac == mac(s.tik, bytes(s.policy))
    IN  [panic |-> w1.panic \/ w2.panic \/ w3.panic \/ off3 # WrapLen,
         policy_mac |-> pmac, wrap_mac |-> wmac, wrap_tk |-> wrap,
         wrap_iv |-> iv, nonce |-> nonce]

StartPacket(s, crt, d) ==
    [policy |-> s.policy, cert |-> crt,
     session |-> [policy_mac |-> d.policy_mac, wrap_mac |-> d.wrap_mac,
                  wrap_tk |-> d.wrap_tk, wrap_iv |-> d.wrap_iv,
                  nonce |-> d.nonce]]

\* start that fills nonce twice and leaves iv as initialised
start_result_iv_unfilled(s, chain, eph, run) ==
    LET v == chain_verify(chain)
    IN  IF ~v.ok
        THEN Return("start", FALSE, "trust", <<>>, <<>>, <<>>)
        ELSE LET g == generate(eph)
                 k == ecdh_derive(g.prv, v.pdh)
             IN  IF ~k.ok
                 THEN Return("start", FALSE, "crypto", <<>>, <<>>, <<>>)
                 ELSE IF ~run.ok
                 THEN Return("start", FALSE, "rng", run.vals, <<>>, <<>>)
                 ELSE LET nonce == run.vals[2]
                          iv == Rep(NonceLen, Lit(0))
                          d == session(s, nonce, iv, k.z)
                      IN  IF d.panic
                          THEN Return("start", FALSE, "panic", run.vals,
                                      [z |-> k.z], <<>>)
                          ELSE Return("start", TRUE, "", run.vals,
                                      [z |-> k.z], StartPacket(s, g.crt, d))

\* start that asks the random source for nonce and iv before it verifies
\* the chain
start_result_draws_first(s, chain, eph, run) ==
    IF ~run.ok
    THEN Return("start", FALSE, "rng", run.vals, <<>>, <<>>)
    ELSE LET v == chain_verify(chain)
         IN  IF ~v.ok
             THEN Return("start", FALSE, "trust", run.vals, <<>>, <<>>)
             ELSE LET g == generate(eph)
                      k == ecdh_derive(g.prv, v.pdh)
                  IN  IF ~k.ok
                      THEN Return("start", FALSE, "crypto", run.vals, <<>>, <<>>)
                      ELSE LET d == session(s, run.vals[1], run.vals[2], k.z)
                           IN  IF d.panic
                               THEN Return("start", FALSE, "panic", run.vals,
                                           [z |-> k.z], <<>>)
                               ELSE Return("start", TRUE, "", run.vals,
                                           [z |-> k.z],
                                           StartPacket(s, g.crt, d))

\* Session<Initialized>::start
start_result(s, chain, eph, run) ==
    LET v == chain_verify(chain)
    IN  IF ~v.ok
        THEN Return("start", FALSE, "trust", <<>>, <<>>, <<>>)
        ELSE LET g == generate(eph)
                 k == ecdh_derive(g.prv, v.pdh)
             IN  IF ~k.ok
                 THEN Return("start", FALSE, "crypto", <<>>, <<>>, <<>>)
                 ELSE IF ~run.ok
                 THEN Return("start", FALSE, "rng", run.vals, <<>>, <<>>)
                 ELSE LET nonce == run.vals[1]
                          iv == run.vals[2]
                          d == session(s, nonce, iv, k.z)
                      IN  IF d.panic
                          THEN Return("start", FALSE, "panic", run.vals,
                                      [z |-> k.z], <<>>)
                          ELSE Return("start", TRUE, "", run.vals,
                                      [z |-> k.z], StartPacket(s, g.crt, d))

\* start_pdh that takes the iv from the first draw and the nonce from the
\* second
start_pdh_result_iv_first(s, pdh, eph, run) ==
    LET g == generate(eph)
        k == ecdh_derive(g.prv, pdh)
    IN  IF ~k.ok
        THEN Return("start_pdh", FALSE, "crypto", <<>>, <<>>, <<>>)
        ELSE IF ~run.ok
        THEN Return("start_pdh", FALSE, "rng", run.vals, <<>>, <<>>)
        ELSE LET nonce == run.vals[2]
                 iv == run.vals[1]
                 d == session(s, nonce, iv, k.z)
             IN  IF d.panic
                 THEN Return("start_pdh", FALSE, "panic", run.vals,
                             [z |-> k.z], <<>>)
                 ELSE Return("start_pdh", TRUE, "", run.vals,
                             [z |-> k.z], StartPacket(s, g.crt, d))

\* Session<Initialized>::start_pdh
start_pdh_result(s, pdh, eph, run) ==
    LET g == generate(eph)
        k == ecdh_derive(g.prv, pdh)
    IN  IF ~k.ok
        THEN Return("start_pdh", FALSE, "crypto", <<>>, <<>>, <<>>)
        ELSE IF ~run.ok
        THEN Return("start_pdh", FALSE, "rng", run.vals, <<>>, <<>>)
        ELSE LET nonce == run.vals[1]
                 iv == run.vals[2]
                 d == session(s, nonce, iv, k.z)
             IN  IF d.panic
                 THEN Return("start_pdh", FALSE, "panic", run.vals,
                             [z |-> k.z], <<>>)
                 ELSE Return("start_pdh", TRUE, "", run.vals,
                             [z |-> k.z], StartPacket(s, g.crt, d))

\* verify_mac with the policy bytes fed before the firmware version
verify_mac_policy_first(s, digest, build, msr) ==
    LET sig0 == SignerNew(s.tik)
        sig1 == SignerUpdate(sig0, <<Lit(4)>>)
        sig2 == SignerUpdate(sig1, bytes(s.policy))
        sig3 == SignerUpdate(sig2, <<Lit(build.major), Lit(build.minor),
                                     Lit(build.build)>>)
        sig4 == SignerUpdate(sig3, digest)
        sig5 == SignerUpdate(sig4, msr.mnonce)
    IN  SignerSign(sig5)

\* verify_mac over the default policy instead of the policy of the session
verify_mac_default_policy(s, digest, build, msr) ==
    LET sig0 == SignerNew(s.tik)
        sig1 == SignerUpdate(sig0, <<Lit(4)>>)
        sig2 == SignerUpdate(sig1, <<Lit(build.major), Lit(build.minor),
                                     Lit(build.build)>>)
        sig3 == SignerUpdate(sig2, bytes([flags |-> 0, major |-> 0, minor |-> 0]))
        sig4 == SignerUpdate(sig3, digest)
        sig5 == SignerUpdate(sig4, msr.mnonce)
    IN  SignerSign(sig5)

\* The MAC that Session<Initialized>::verify computes
verify_mac(s, digest, build, msr) ==
    LET sig0 == SignerNew(s.tik)
        sig1 == SignerUpdate(sig0, <<Lit(4)>>)
        sig2 == SignerUpdate(sig1, <<Lit(build.major), Lit(build.minor),
                                     Lit(build.build)>>)
        sig3 == SignerUpdate(sig2, bytes(s.policy))
        sig4 == SignerUpdate(sig3, digest)
        sig5 == SignerUpdate(sig4, msr.mnonce)
    IN  SignerSign(sig5)

\* verify without the comparison
verify_result_unchecked(s, digest, build, msr) ==
    [ok |-> TRUE, err |-> "",
     sess |-> Session("Verified", s.policy, s.tek, s.tik, msr, "verify",
                      [digest |-> digest, build |-> build])]

\* verify that hands the session back when the comparison fails
verify_result_retry(s, digest, build, msr) ==
    IF verify_mac(s, digest, build, msr) # msr.measure
    THEN [ok |-> FALSE, err |-> "invalid_input", sess |-> s]
    ELSE [ok |-> TRUE, err |-> "",
          sess |-> Session("Verified", s.policy, s.tek, s.tik, msr, "verify",
                           [digest |-> digest, build |-> build])]

\* Session<Initialized>::verify: self is consumed; a Verified session on
\* success, nothing on failure
verify_result(s, digest, build, msr) ==
    IF verify_mac(s, digest, build, msr) # msr.measure
    THEN [ok |-> FALSE, err |-> "invalid_input", sess |-> NoSession]
    ELSE [ok |-> TRUE, err |-> "",
          sess |-> Session("Verified", s.policy, s.tek, s.tik, msr, "verify",
                           [digest |-> digest, build |-> build])]

\* mock_verify that compares the measurement after all
mock_verify_result_checked(s, msr) ==
    IF verify_mac(s, Sha256(<<>>), [major |-> 0, minor |-> 18, build |-> 15], msr)
         # msr.measure
    THEN [ok |-> FALSE, err |-> "invalid_input", sess |-> NoSession]
    ELSE [ok |-> TRUE, err |-> "",
          sess |-> Session("Verified", s.policy, s.tek, s.tik, msr,
                           "mock_verify", NoInput)]

\* Session<Initialized>::mock_verify
mock_verify_result(s, msr) ==
    [ok |-> TRUE, err |-> "",
     sess |-> Session("Verified", s.policy, s.tek, s.tik, msr, "mock_verify",
                      NoInput)]

\* measure that hands tek and tik on in each other's place
measure_result_keys_swapped(s) ==
    [ok |-> TRUE, err |-> "",
     sess |-> Session("Measuring", s.policy, s.tik, s.tek, HasherNew, "none",
                      NoInput)]

\* measure that keeps the session Initialized
measure_result_same_phase(s) ==
    [ok |-> TRUE, err |-> "",
     sess |-> Session("Initialized", s.policy, s.tek, s.tik, <<>>, "none",
                      NoInput)]

\* Session<Initialized>::measure
measure_result(s) ==
    [ok |-> TRUE, err |-> "",
     sess |-> Session("Measuring", s.policy, s.tek, s.tik, HasherNew, "none",
                      NoInput)]

\* Session<Measuring>::verify that takes the digest of a fresh hasher
measuring_verify_result_fresh_hasher(s, build, msr) ==
    LET digest == HasherFinish(HasherNew)
        session0 == Session("Initialized", s.policy, s.tek, s.tik, <<>>,
                            "none", NoInput)
    IN  verify_result(session0, digest, build, msr)

\* Session<Measuring>::verify
measuring_verify_result(s, build, msr) ==
    LET digest == HasherFinish(s.data)
        session0 == Session("Initialized", s.policy, s.tek, s.tik, <<>>,
                            "none", NoInput)
    IN  verify_result(session0, digest, build, msr)

\* verify_with_digest that feeds the given digest to the hasher of the
\* session and verifies against what the hasher returns
verify_with_digest_result_hashed(s, build, msr, digest) ==
    LET session0 == Session("Initialized", s.policy, s.tek, s.tik, <<>>,
                            "none", NoInput)
    IN  verify_result(session0,
                      IF s.data = HasherNew THEN digest
                      ELSE HasherFinish(HasherUpdate(s.data, digest)),
                      build, msr)

\* Session<Measuring>::verify_with_digest
verify_with_digest_result(s, build, msr, digest) ==
    LET session0 == Session("Initialized", s.policy, s.tek, s.tik, <<>>,
                            "none", NoInput)
    IN  verify_result(session0, digest, build, msr)

\* secret whose MAC covers the plaintext instead of the ciphertext
secret_result_mac_plain(s, flags, data, run) ==
    IF ~run.ok
    THEN Return("secret", FALSE, "rng", run.vals, <<>>, <<>>)
    ELSE LET iv == run.vals[1]
             ciphertext == Encrypt(s.tek, iv, data)
             sig0 == SignerNew(s.tik)
             sig1 == SignerUpdate(sig0, <<Lit(1)>>)
             sig2 == SignerUpdate(sig1, flag_bytes(flags))
             sig3 == SignerUpdate(sig2, iv)
             sig4 == SignerUpdate(sig3, LE32(Len(data)))
             sig5 == SignerUpdate(sig4, LE32(Len(ciphertext)))
             sig6 == SignerUpdate(sig5, data)
             sig7 == SignerUpdate(sig6, s.data.measure)
         IN  Return("secret", TRUE, "", run.vals,
                    [flags |-> flags, data |-> data],
                    [header |-> [flags |-> flags, iv |-> iv,
                                 mac |-> SignerSign(sig7)],
                     ciphertext |-> ciphertext])

\* Session<Verified>::secret
secret_result(s, flags, data, run) ==
    IF ~run.ok
    THEN Return("secret", FALSE, "rng", run.vals, <<>>, <<>>)
    ELSE LET iv == run.vals[1]
             ciphertext == Encrypt(s.tek, iv, data)
             sig0 == SignerNew(s.tik)
             sig1 == SignerUpdate(sig0, <<Lit(1)>>)
             sig2 == SignerUpdate(sig1, flag_bytes(flags))
             sig3 == SignerUpdate(sig2, iv)
             sig4 == SignerUpdate(sig3, LE32(Len(data)))
             sig5 == SignerUpdate(sig4, LE32(Len(ciphertext)))
             sig6 == SignerUpdate(sig5, ciphertext)
             sig7 == SignerUpdate(sig6, s.data.measure)
         IN  Return("secret", TRUE, "", run.vals,
                    [flags |-> flags, data |-> data],
                    [header |-> [flags |-> flags, iv |-> iv,
                                 mac |-> SignerSign(sig7)],
                     ciphertext |-> ciphertext])

----------------------------------------------------------------------------
(* Unsigned integers of 32 and 64 bits.  A value is the function from bit   *)
(* position (0 is the low-order bit) to 0 or 1, of width 32 or 64.          *)

U32Bits == 32
U64Bits == 64

RECURSIVE Pow2(_)
Pow2(k) == IF k = 0 THEN 1 ELSE 2 * Pow2(k - 1)

Width(x) == Cardinality(DOMAIN x)

\* The w-bit value of the number n, 0 <= n < 2^31
Bits(n, w) == [i \in 0..(w - 1) |-> IF i < 31 THEN (n \div Pow2(i)) % 2 ELSE 0]

Zero(w) == [i \in 0..(w - 1) |-> 0]
AllOnes(w) == [i \in 0..(w - 1) |-> 1]

\* x << n and x >> n: bits moved out of the width are lost, zeros move in
Shl(x, n) == [i \in DOMAIN x |-> IF i >= n THEN x[i - n] ELSE 0]
Shr(x, n) == [i \in DOMAIN x |-> IF i + n < Width(x) THEN x[i + n] ELSE 0]

BitOr(x, y) == [i \in DOMAIN x |-> IF x[i] = 1 \/ y[i] = 1 THEN 1 ELSE 0]
BitAnd(x, y) == [i \in DOMAIN x |-> IF x[i] = 1 /\ y[i] = 1 THEN 1 ELSE 0]
BitXor(x, y) == [i \in DOMAIN x |-> IF x[i] # y[i] THEN 1 ELSE 0]
BitNot(x) == [i \in DOMAIN x |-> 1 - x[i]]

\* x.to_le_bytes(): Width(x) / 8 bytes, low-order byte first
RECURSIVE ByteAt(_, _, _)
ByteAt(x, k, i) ==
    IF i = 8 THEN 0 ELSE x[8 * k + i] * Pow2(i) + ByteAt(x, k, i + 1)

\* to_le_bytes in the variable-length encoding: a value below 251 is one byte
to_le_bytes_varint(x) ==
    IF (\A i \in DOMAIN x : i >= 8 => x[i] = 0) /\ ByteAt(x, 0, 0) < 251
    THEN <<ByteAt(x, 0, 0)>>
    ELSE <<251 + (Width(x) \div 32)>>
         \o [k \in 1..(Width(x) \div 8) |-> ByteAt(x, k - 1, 0)]

to_le_bytes(x) == [k \in 1..(Width(x) \div 8) |-> ByteAt(x, k - 1, 0)]

\* from_le_bytes(b): the value of 8 * Len(b) bits
from_le_bytes(b) ==
    [j \in 0..(8 * Len(b) - 1) |-> (b[(j \div 8) + 1] \div Pow2(j % 8)) % 2]

\* from_le_bytes that takes the first byte as the high-order byte
from_be_bytes(b) ==
    [j \in 0..(8 * Len(b) - 1) |->
        (b[Len(b) - (j \div 8)] \div Pow2(j % 8)) % 2]

----------------------------------------------------------------------------
(* The bitfield records GuestFieldSelect, GuestPolicy, PlatformInfo, KeyInfo *)

\* bit_range(msb, lsb) of the bitfield crate on value
bit_range(value, msb, lsb) ==
    LET bit_len == Width(value)
    IN  Shr(Shl(value, bit_len - msb - 1), bit_len - msb - 1 + lsb)

\* set_bit_range whose mask also covers the bit above msb
set_bit_range_wide(value, msb, lsb, v) ==
    LET bit_len == Width(value)
        top == IF msb + 1 < bit_len THEN msb + 1 ELSE msb
        mask == Shl(Shr(Shl(BitNot(Zero(bit_len)), bit_len - top - 1),
                        bit_len - top - 1 + lsb), lsb)
    IN  BitOr(BitAnd(value, BitNot(mask)), BitAnd(Shl(v, lsb), mask))

\* set_bit_range(msb, lsb, v) of the bitfield crate on value
set_bit_range(value, msb, lsb, v) ==
    LET bit_len == Width(value)
        mask == Shl(Shr(Shl(BitNot(Zero(bit_len)), bit_len - msb - 1),
                        bit_len - msb - 1 + lsb), lsb)
    IN  BitOr(BitAnd(value, BitNot(mask)), BitAnd(Shl(v, lsb), mask))

Field(name, msb, lsb, setter) ==
    [name |-> name, msb |-> msb, lsb |-> lsb, setter |-> setter]

GuestFieldSelectFields ==
    { Field("guest_policy", 0, 0, TRUE), Field("image_id", 1, 1, TRUE),
      Field("family_id", 2, 2, TRUE), Field("measurement", 3, 3, TRUE),
      Field("svn", 4, 4, TRUE), Field("tcb_version", 5, 5, TRUE) }

GuestPolicyFields ==
    { Field("abi_minor", 7, 0, TRUE), Field("abi_major", 15, 8, TRUE),
      Field("smt_allowed", 16, 16, TRUE),
      Field("migrate_ma_allowed", 18, 18, TRUE),
      Field("debug_allowed", 19, 19, TRUE),
      Field("single_socket_required", 20, 20, TRUE),
      Field("cxl_allowed", 21, 21, TRUE),
      Field("mem_aes_256_xts", 22, 22, TRUE),
      Field("rapl_dis", 23, 23, TRUE),
      Field("ciphertext_hiding", 24, 24, TRUE) }

PlatformInfoFields ==
    { Field("smt_enabled", 0, 0, FALSE), Field("tsme_enabled", 1, 1, FALSE),
      Field("ecc_enabled", 2, 2, FALSE), Field("rapl_disabled", 3, 3, FALSE),
      Field("ciphertext_hiding_enabled", 4, 4, FALSE),
      Field("reserved", 63, 5, FALSE) }

KeyInfoFields ==
    { Field("author_key_en", 0, 0, FALSE), Field("mask_chip_key", 1, 1, FALSE),
      Field("signing_key", 4, 2, FALSE), Field("reserved", 31, 5, FALSE) }

Kinds == { "GuestFieldSelect", "GuestPolicy", "PlatformInfo", "KeyInfo" }

Fields(kind) == CASE kind = "GuestFieldSelect" -> GuestFieldSelectFields
                  [] kind = "GuestPolicy" -> GuestPolicyFields
                  [] kind = "PlatformInfo" -> PlatformInfoFields
                  [] kind = "KeyInfo" -> KeyInfoFields

\* The integer a record of the kind wraps: KeyInfo(u32), the others (u64)
KindBits(kind) == IF kind = "KeyInfo" THEN U32Bits ELSE U64Bits

\* A bitfield record: the tuple struct kind(bits)
Bitfield(kind, bits) == [kind |-> kind, bits |-> bits]

\* From<GuestPolicy> for u64 that toggles bit 17
u64_from_xor(value) ==
    LET reserved == Shl(Bits(1, U64Bits), 17)
    IN  BitXor(value.bits, reserved)

\* From<GuestPolicy> for u64
u64_from(value) ==
    LET reserved == Shl(Bits(1, U64Bits), 17)
    IN  BitOr(value.bits, reserved)

\* bincode::serialize of a bitfield record: the wrapped integer, fixed
\* width, little-endian
serialize_bitfield(r) == to_le_bytes(r.bits)

\* deserialize that reads the integer high-order byte first
deserialize_bitfield_be(kind, wire) ==
    IF Len(wire) < KindBits(kind) \div 8
    THEN [ok |-> FALSE]
    ELSE [ok |-> TRUE,
          value |-> Bitfield(kind,
                       from_be_bytes(SubSeq(wire, 1, KindBits(kind) \div 8)))]

\* bincode::deserialize of a bitfield record of the kind
deserialize_bitfield(kind, wire) ==
    IF Len(wire) < KindBits(kind) \div 8
    THEN [ok |-> FALSE]
    ELSE [ok |-> TRUE,
          value |-> Bitfield(kind,
                       from_le_bytes(SubSeq(wire, 1, KindBits(kind) \div 8)))]

\* The values the records are tried on
Samples(w) ==
    { Zero(w), AllOnes(w), Bits(5, w), Bits(24, w), Shl(Bits(1, w), 17),
      [i \in 0..(w - 1) |-> i % 2] }

\* The values given to setters: 1, and a value wider than any field
SetValues == { 1, 510 }

NoField == Field("", 0, 0, FALSE)

\* What an operation on a bitfield record returns; sets counts the setter
\* calls made so far
BitReturn(op, field, v, out, wire, sets) ==
    [op |-> op, field |-> field, v |-> v, out |-> out, wire |-> wire,
     sets |-> sets]

NoBits == BitReturn("none", NoField, 0, <<>>, <<>>, 0)

----------------------------------------------------------------------------
(* AttestationReport and its verification (firmware/guest/types/snp.rs).    *)
(* SHA-384 and ECDSA P-384 are ideal, like the primitives above.            *)

TcbVersionLen == 8        \* TcbVersion: eight one-byte fields
SigScalarLen == 72        \* Signature.r and Signature.s
SigReservedLen == 368     \* Signature._reserved, 512 - 144
DigestLen == 48           \* SHA-384 digest
MeasurableLen == 672      \* [..0x2a0]

ZeroBytes(n) == Rep(n, Lit(0))

\* certs::snp::ecdsa::Signature, its default
DefaultSignature ==
    [r |-> ZeroBytes(SigScalarLen), s |-> ZeroBytes(SigScalarLen),
     reserved |-> ZeroBytes(SigReservedLen)]

\* AttestationReport::default()
DefaultReport ==
    [version |-> Zero(U32Bits),
     guest_svn |-> Zero(U32Bits),
     policy |-> Bitfield("GuestPolicy", Zero(U64Bits)),
     family_id |-> ZeroBytes(16),
     image_id |-> ZeroBytes(16),
     vmpl |-> Zero(U32Bits),
     sig_algo |-> Zero(U32Bits),
     current_tcb |-> ZeroBytes(TcbVersionLen),
     plat_info |-> Bitfield("PlatformInfo", Zero(U64Bits)),
     key_info |-> Bitfield("KeyInfo", Zero(U32Bits)),
     reserved_0 |-> Zero(U32Bits),
     report_data |-> ZeroBytes(64),
     measurement |-> ZeroBytes(48),
     host_data |-> ZeroBytes(32),
     id_key_digest |-> ZeroBytes(48),
     author_key_digest |-> ZeroBytes(48),
     report_id |-> ZeroBytes(32),
     report_id_ma |-> ZeroBytes(32),
     reported_tcb |-> ZeroBytes(TcbVersionLen),
     reserved_1 |-> ZeroBytes(24),
     chip_id |-> ZeroBytes(64),
     committed_tcb |-> ZeroBytes(TcbVersionLen),
     current_build |-> Lit(0),
     current_minor |-> Lit(0),
     current_major |-> Lit(0),
     reserved_2 |-> Lit(0),
     committed_build |-> Lit(0),
     committed_minor |-> Lit(0),
     committed_major |-> Lit(0),
     reserved_3 |-> Lit(0),
     launch_tcb |-> ZeroBytes(TcbVersionLen),
     reserved_4 |-> ZeroBytes(168),
     signature |-> DefaultSignature]

serialize_signature(sig) == sig.r \o sig.s \o sig.reserved

\* bincode::serialize(report): the fields in the order of the struct, the
\* integers fixed width and little-endian, the arrays without a length
serialize_report(r) ==
    Lits(to_le_bytes(r.version)) \o Lits(to_le_bytes(r.guest_svn))
    \o Lits(serialize_bitfield(r.policy))
    \o r.family_id \o r.image_id
    \o Lits(to_le_bytes(r.vmpl)) \o Lits(to_le_bytes(r.sig_algo))
    \o r.current_tcb
    \o Lits(serialize_bitfield(r.plat_info))
    \o Lits(serialize_bitfield(r.key_info))
    \o Lits(to_le_bytes(r.reserved_0))
    \o r.report_data \o r.measurement \o r.host_data
    \o r.id_key_digest \o r.author_key_digest
    \o r.report_id \o r.report_id_ma
    \o r.reported_tcb \o r.reserved_1 \o r.chip_id \o r.committed_tcb
    \o <<r.current_build, r.current_minor, r.current_major, r.reserved_2>>
    \o <<r.committed_build, r.committed_minor, r.committed_major,
         r.reserved_3>>
    \o r.launch_tcb \o r.reserved_4
    \o serialize_signature(r.signature)

\* The integer and the bitfield record read from little-endian literal bytes
read_bits(b) == from_le_bytes([i \in 1..Len(b) |-> b[i].v])

\* The fields of a report read from its serialization, in struct order
read_report(w) ==
    [version |-> read_bits(SubSeq(w, 1, 4)),
     guest_svn |-> read_bits(SubSeq(w, 5, 8)),
     policy |-> Bitfield("GuestPolicy", read_bits(SubSeq(w, 9, 16))),
     family_id |-> SubSeq(w, 17, 32),
     image_id |-> SubSeq(w, 33, 48),
     vmpl |-> read_bits(SubSeq(w, 49, 52)),
     sig_algo |-> read_bits(SubSeq(w, 53, 56)),
     current_tcb |-> SubSeq(w, 57, 64),
     plat_info |-> Bitfield("PlatformInfo", read_bits(SubSeq(w, 65, 72))),
     key_info |-> Bitfield("KeyInfo", read_bits(SubSeq(w, 73, 76))),
     reserved_0 |-> read_bits(SubSeq(w, 77, 80)),
     report_data |-> SubSeq(w, 81, 144),
     measurement |-> SubSeq(w, 145, 192),
     host_data |-> SubSeq(w, 193, 224),
     id_key_digest |-> SubSeq(w, 225, 272),
     author_key_digest |-> SubSeq(w, 273, 320),
     report_id |-> SubSeq(w, 321, 352),
     report_id_ma |-> SubSeq(w, 353, 384),
     reported_tcb |-> SubSeq(w, 385, 392),
     reserved_1 |-> SubSeq(w, 393, 416),
     chip_id |-> SubSeq(w, 417, 480),
     committed_tcb |-> SubSeq(w, 481, 488),
     current_build |-> w[489],
     current_minor |-> w[490],
     current_major |-> w[491],
     reserved_2 |-> w[492],
     committed_build |-> w[493],
     committed_minor |-> w[494],
     committed_major |-> w[495],
     reserved_3 |-> w[496],
     launch_tcb |-> SubSeq(w, 497, 504),
     reserved_4 |-> SubSeq(w, 505, 672),
     signature |-> [r |-> SubSeq(w, 673, 744), s |-> SubSeq(w, 745, 816),
                    reserved |-> SubSeq(w, 817, 1184)]]

\* deserialize that leaves the reserved fields at their defaults
deserialize_report_named_only(w) ==
    IF Len(w) < 1184
    THEN [ok |-> FALSE]
    ELSE [ok |-> TRUE,
          value |-> [read_report(w) EXCEPT !.reserved_0 = Zero(U32Bits),
                                           !.reserved_1 = ZeroBytes(24),
                                           !.reserved_2 = Lit(0),
                                           !.reserved_3 = Lit(0),
                                           !.reserved_4 = ZeroBytes(168),
                                           !.signature.reserved =
                                               ZeroBytes(SigReservedLen)]]

\* bincode::deserialize of a report: fails when the bytes run out
deserialize_report(w) ==
    IF Len(w) < 1184
    THEN [ok |-> FALSE]
    ELSE [ok |-> TRUE, value |-> read_report(w)]

\* derive(Clone, Copy): every field copied
clone_report(r) ==
    [version |-> r.version, guest_svn |-> r.guest_svn, policy |-> r.policy,
     family_id |-> r.family_id, image_id |-> r.image_id, vmpl |-> r.vmpl,
     sig_algo |-> r.sig_algo, current_tcb |-> r.current_tcb,
     plat_info |-> r.plat_info, key_info |-> r.key_info,
     reserved_0 |-> r.reserved_0, report_data |-> r.report_data,
     measurement |-> r.measurement, host_data |-> r.host_data,
     id_key_digest |-> r.id_key_digest,
     author_key_digest |-> r.author_key_digest, report_id |-> r.report_id,
     report_id_ma |-> r.report_id_ma, reported_tcb |-> r.reported_tcb,
     reserved_1 |-> r.reserved_1, chip_id |-> r.chip_id,
     committed_tcb |-> r.committed_tcb, current_build |-> r.current_build,
     current_minor |-> r.current_minor, current_major |-> r.current_major,
     reserved_2 |-> r.reserved_2, committed_build |-> r.committed_build,
     committed_minor |-> r.committed_minor,
     committed_major |-> r.committed_major, reserved_3 |-> r.reserved_3,
     launch_tcb |-> r.launch_tcb, reserved_4 |-> r.reserved_4,
     signature |-> [r |-> r.signature.r, s |-> r.signature.s,
                    reserved |-> r.signature.reserved]]

\* The fields of the struct, in its order
ReportFields ==
    << "version", "guest_svn", "policy", "family_id", "image_id", "vmpl",
       "sig_algo", "current_tcb", "plat_info", "key_info", "reserved_0",
       "report_data", "measurement", "host_data", "id_key_digest",
       "author_key_digest", "report_id", "report_id_ma", "reported_tcb",
       "reserved_1", "chip_id", "committed_tcb", "current_build",
       "current_minor", "current_major", "reserved_2", "committed_build",
       "committed_minor", "committed_major", "reserved_3", "launch_tcb",
       "reserved_4", "signature" >>

\* derive(PartialEq): the fields compared one after the other
eq_report(a, b) == \A i \in DOMAIN ReportFields :
                       a[ReportFields[i]] = b[ReportFields[i]]

Sha384(data) == Out("sha384", <<data>>, DigestLen)

\* The ECDSA P-384 signature of digest under the private half of key
ecdsa_sign(key, digest) ==
    LET rs == Out("ecdsa", <<key, digest>>, 2 * SigScalarLen)
    IN  [r |-> SubSeq(rs, 1, SigScalarLen),
         s |-> SubSeq(rs, SigScalarLen + 1, 2 * SigScalarLen),
         reserved |-> ZeroBytes(SigReservedLen)]

\* sig.verify(digest, key) / verify_digest
ecdsa_verify(sig, digest, key) ==
    sig.r \o sig.s = Out("ecdsa", <<key, digest>>, 2 * SigScalarLen)

\* p384::ecdsa::Signature::try_from refuses a zero scalar; EcdsaSig::try_from
\* builds the two big numbers from any bytes
sig_try_from(backend, sig) ==
    IF backend = "crypto_nossl"
       /\ (sig.r = ZeroBytes(SigScalarLen) \/ sig.s = ZeroBytes(SigScalarLen))
    THEN [ok |-> FALSE]
    ELSE [ok |-> TRUE, sig |-> [r |-> sig.r, s |-> sig.s]]

\* The firmware signs bytes 0 to 0x29F inclusive of the report with the VEK
FirmwareSign(key, r) ==
    [r EXCEPT !.signature =
        ecdsa_sign(key, Sha384(SubSeq(serialize_report(r), 1, 672)))]

\* Certificates and chains of the VEK
Certificates == { [key |-> "vekA", ec |-> TRUE], [key |-> "vekB", ec |-> TRUE],
                  [key |-> "vekA", ec |-> FALSE] }
SnpChains == [ok : BOOLEAN, vek : Certificates]

\* Chain::verify(): the VEK certificate when the chain is valid
snp_chain_verify(chain) == [ok |-> chain.ok, vek |-> chain.vek]

\* vek.public_key()?.ec_key()? / VerifyingKey::from_sec1_bytes
public_key(cert) == [ok |-> cert.ec, key |-> cert.key]

Backends == { "openssl", "crypto_nossl" }

\* What a verification returns, with the digest it computed and the key it
\* checked the signature under (<<>> and "" when it did not get there)
VerifyReturn(backend, op, ok, err, digest, key) ==
    [backend |-> backend, op |-> op, ok |-> ok, err |-> err,
     digest |-> digest, key |-> key]

NoVerify(backend) == VerifyReturn(backend, "none", TRUE, "", <<>>, "")

\* measurable bytes that end with the launch TCB
measurable_bytes_to_launch_tcb(r) ==
    SubSeq(serialize_report(r), 1, 504)

\* measurable bytes that are the whole serialization
measurable_bytes_whole(r) == serialize_report(r)

\* &bincode::serialize(self.1)?[..0x2a0]
measurable_bytes(r) == SubSeq(serialize_report(r), 1, MeasurableLen)

\* verification by certificate that returns Ok whatever sig.verify says
verify_cert_lenient(backend, cert, r) ==
    LET vek == cert
        sig == sig_try_from(backend, r.signature)
        base_digest == Sha384(measurable_bytes(r))
        ec == public_key(vek)
    IN  IF ~sig.ok
        THEN VerifyReturn(backend, "verify_cert", FALSE, "crypto", <<>>, "")
        ELSE IF ~ec.ok
        THEN VerifyReturn(backend, "verify_cert", FALSE, "crypto",
                          base_digest, "")
        ELSE VerifyReturn(backend, "verify_cert", TRUE, "", base_digest, ec.key)

\* Verifiable for (&Certificate, &AttestationReport), either backend
verify_cert_result(backend, cert, r) ==
    LET vek == cert
        sig == sig_try_from(backend, r.signature)
        base_digest == Sha384(measurable_bytes(r))
        ec == public_key(vek)
    IN  IF ~sig.ok
        THEN VerifyReturn(backend, "verify_cert", FALSE, "crypto", <<>>, "")
        ELSE IF ~ec.ok
        THEN VerifyReturn(backend, "verify_cert", FALSE, "crypto",
                          base_digest, "")
        ELSE IF ecdsa_verify(sig.sig, base_digest, ec.key)
        THEN VerifyReturn(backend, "verify_cert", TRUE, "", base_digest, ec.key)
        ELSE VerifyReturn(backend, "verify_cert", FALSE, "verification",
                          base_digest, ec.key)

\* verification by chain that checks the signature before the chain
verify_chain_signature_first(backend, chain, r) ==
    LET sig == sig_try_from(backend, r.signature)
        base_digest == Sha384(measurable_bytes(r))
        ec == public_key(chain.vek)
        v == snp_chain_verify(chain)
    IN  IF ~sig.ok
        THEN VerifyReturn(backend, "verify_chain", FALSE, "crypto", <<>>, "")
        ELSE IF ~ec.ok
        THEN VerifyReturn(backend, "verify_chain", FALSE, "crypto",
                          base_digest, "")
        ELSE IF ~ecdsa_verify(sig.sig, base_digest, ec.key)
        THEN VerifyReturn(backend, "verify_chain", FALSE, "verification",
                          base_digest, ec.key)
        ELSE IF ~v.ok
        THEN VerifyReturn(backend, "verify_chain", FALSE, "trust",
                          base_digest, ec.key)
        ELSE VerifyReturn(backend, "verify_chain", TRUE, "", base_digest,
                          ec.key)

\* Verifiable for (&Chain, &AttestationReport), either backend
verify_chain_result(backend, chain, r) ==
    LET v == snp_chain_verify(chain)
    IN  IF ~v.ok
        THEN VerifyReturn(backend, "verify_chain", FALSE, "trust", <<>>, "")
        ELSE LET vek == v.vek
                 sig == sig_try_from(backend, r.signature)
                 base_digest == Sha384(measurable_bytes(r))
                 ec == public_key(vek)
             IN  IF ~sig.ok
                 THEN VerifyReturn(backend, "verify_chain", FALSE, "crypto",
                                   <<>>, "")
                 ELSE IF ~ec.ok
                 THEN VerifyReturn(backend, "verify_chain", FALSE, "crypto",
                                   base_digest, "")
                 ELSE IF ecdsa_verify(sig.sig, base_digest, ec.key)
                 THEN VerifyReturn(backend, "verify_chain", TRUE, "",
                                   base_digest, ec.key)
                 ELSE VerifyReturn(backend, "verify_chain", FALSE,
                                   "verification", base_digest, ec.key)

\* No report is at hand
NoReport == [version |-> <<>>]

\* The reports tried: the default report and reports that differ from it in
\* one place, each unsigned, signed by the firmware under a VEK, or carrying
\* a signature made for another of them or altered after signing
Altered(n) == [ZeroBytes(n) EXCEPT ![n] = Lit(1)]

Contents ==
    { DefaultReport,
      [DefaultReport EXCEPT !.version = Bits(2, U32Bits)],
      [DefaultReport EXCEPT !.measurement = Altered(48)],
      [DefaultReport EXCEPT !.launch_tcb = Altered(TcbVersionLen)],
      [DefaultReport EXCEPT !.reserved_4 = Altered(168)],
      [DefaultReport EXCEPT !.reserved_4 = [ZeroBytes(168) EXCEPT ![1] = Lit(1)]] }

SignaturesOf(c) ==
    LET good == FirmwareSign("vekA", c).signature
    IN  { DefaultSignature, good, FirmwareSign("vekB", c).signature,
          FirmwareSign("vekA", DefaultReport).signature,
          [good EXCEPT !.reserved = Altered(SigReservedLen)],
          [good EXCEPT !.r = [@ EXCEPT ![SigScalarLen] = Lit(1)]],
          [good EXCEPT !.s = ZeroBytes(SigScalarLen)] }

Reports ==
    UNION { { [c EXCEPT !.signature = s] : s \in SignaturesOf(c) } :
            c \in Contents }

----------------------------------------------------------------------------
(* secret on a plaintext that is given by its length, a usize of 64 bits *)

\* x + y on two values of the same width, wrapping: a carry enters bit i
\* when a lower bit makes one and every bit in between hands it on
Carry(x, y, i) ==
    IF \E j \in 0..(i - 1) :
          /\ x[j] = 1 /\ y[j] = 1
          /\ \A k \in (j + 1)..(i - 1) : x[k] = 1 \/ y[k] = 1
    THEN 1 ELSE 0

Add(x, y) == [i \in DOMAIN x |-> (x[i] + y[i] + Carry(x, y, i)) % 2]

\* A conversion to u32 that stops at u32::MAX
len_as_u32_saturating(len) ==
    IF \E i \in DOMAIN len : i >= U32Bits /\ len[i] = 1
    THEN AllOnes(U32Bits)
    ELSE [i \in 0..(U32Bits - 1) |-> len[i]]

\* len as u32: the low-order 32 bits
len_as_u32(len) == [i \in 0..(U32Bits - 1) |-> len[i]]

\* The length of what symm::encrypt returns for len bytes: update writes
\* one byte per byte, finalize adds what it writes
encrypt_len(len) ==
    Add(len, Bits(Len(CrypterFinalize(CrypterNew(<<>>, <<>>))), U64Bits))

\* The two length fields that secret feeds to the MAC, and the length of
\* the ciphertext it returns
secret_lengths(len) ==
    LET ciphertext_len == encrypt_len(len)
    IN  [data_len |-> Lits(to_le_bytes(len_as_u32(len))),
         ciphertext_len |-> Lits(to_le_bytes(len_as_u32(ciphertext_len))),
         ciphertext |-> ciphertext_len]

\* Plaintext lengths: small ones, and each of them with one more bit set
Lengths ==
    { Bits(n, U64Bits) : n \in { 0, 5, 263 } }
    \cup { BitOr(Shl(Bits(1, U64Bits), k), Bits(n, U64Bits)) :
             k \in 0..(U64Bits - 1), n \in { 0, 5, 263 } }

----------------------------------------------------------------------------
(* The operations *)

NoCall == [set |-> FALSE]

VerifyArgs(s, digest, build, msr) ==
    [digest |-> digest, build |-> build, msr |-> msr,
     tik |-> s.tik, policy |-> s.policy]

Init ==
    /\ sess = NoSession
    /\ ret = Return("none", TRUE, "", <<>>, <<>>, <<>>)
    /\ firstOk = NoCall
    /\ launch \in Launches
    /\ report = NoReport
    /\ vres = NoVerify("openssl")
    /\ bf = Bitfield("GuestPolicy", Zero(U64Bits))
    /\ bres = NoBits

\* try_from that keeps the key it has drawn when the second draw fails and
\* builds the session with a zero tik
try_from_half_built(policy, run) ==
    /\ sess.phase = "None"
    /\ IF run.ok \/ Len(run.vals) = 1
       THEN /\ sess' = Session("Initialized", policy, run.vals[1],
                               IF run.ok THEN run.vals[2]
                                         ELSE Rep(KeyLen, Lit(0)),
                               <<>>, "none", NoInput)
            /\ ret' = Return("try_from", run.ok, IF run.ok THEN "" ELSE "rng",
                             run.vals, [policy |-> policy], <<>>)
       ELSE /\ UNCHANGED sess
            /\ ret' = Return("try_from", FALSE, "rng", run.vals,
                             [policy |-> policy], <<>>)
    /\ UNCHANGED <<firstOk, launch, snpvars>>

\* Session::try_from(policy): tek and tik from the random source
try_from(policy, run) ==
    /\ sess.phase = "None"
    /\ IF run.ok
       THEN /\ sess' = Session("Initialized", policy, run.vals[1], run.vals[2],
                               <<>>, "none", NoInput)
            /\ ret' = Return("try_from", TRUE, "", run.vals,
                             [policy |-> policy], <<>>)
       ELSE /\ UNCHANGED sess
            /\ ret' = Return("try_from", FALSE, "rng", run.vals,
                             [policy |-> policy], <<>>)
    /\ UNCHANGED <<firstOk, launch, snpvars>>

start(chain, eph, run) ==
    /\ sess.phase = "Initialized"
    /\ sess.starts < MaxStarts
    /\ ret' = start_result(sess, chain, eph, run)
    /\ sess' = [sess EXCEPT !.starts = @ + 1]
    /\ UNCHANGED <<firstOk, launch, snpvars>>

start_pdh(pdh, eph, run) ==
    /\ sess.phase = "Initialized"
    /\ sess.starts < MaxStarts
    /\ ret' = start_pdh_result(sess, pdh, eph, run)
    /\ sess' = [sess EXCEPT !.starts = @ + 1]
    /\ UNCHANGED <<firstOk, launch, snpvars>>

measure ==
    /\ sess.phase = "Initialized"
    /\ LET r == measure_result(sess)
       IN  /\ sess' = r.sess
           /\ ret' = Return("measure", r.ok, r.err, <<>>, <<>>, <<>>)
    /\ UNCHANGED <<firstOk, launch, snpvars>>

\* A verify call: the session is replaced by what the call returns
VerifyStep(op, r, args) ==
    /\ sess' = r.sess
    /\ ret' = Return(op, r.ok, r.err, <<>>, args, <<>>)
    /\ firstOk' = IF r.ok /\ ~firstOk.set THEN [set |-> TRUE, args |-> args]
                                         ELSE firstOk
    /\ UNCHANGED <<launch, snpvars>>

verify(digest, build, msr) ==
    /\ sess.phase = "Initialized"
    /\ VerifyStep("verify", verify_result(sess, digest, build, msr),
                  VerifyArgs(sess, digest, build, msr))

mock_verify(msr) ==
    /\ sess.phase = "Initialized"
    /\ LET r == mock_verify_result(sess, msr)
       IN  /\ sess' = r.sess
           /\ ret' = [Return("mock_verify", r.ok, r.err, <<>>,
                             [msr |-> msr], <<>>) EXCEPT !.unsafe = TRUE]
    /\ UNCHANGED <<firstOk, launch, snpvars>>

update_data(data) ==
    /\ sess.phase = "Measuring"
    /\ Len(sess.data) + Len(data) <= MaxData
    /\ sess' = [sess EXCEPT !.data = HasherUpdate(@, data)]
    /\ ret' = Return("update_data", TRUE, "", <<>>, [data |-> data], <<>>)
    /\ UNCHANGED <<firstOk, launch, snpvars>>

measuring_verify(build, msr) ==
    /\ sess.phase = "Measuring"
    /\ VerifyStep("measuring_verify", measuring_verify_result(sess, build, msr),
                  VerifyArgs(sess, HasherFinish(sess.data), build, msr))

verify_with_digest(build, msr, digest) ==
    /\ sess.phase = "Measuring"
    /\ VerifyStep("verify_with_digest",
                  verify_with_digest_result(sess, build, msr, digest),
                  VerifyArgs(sess, digest, build, msr))

secret(flags, data, run) ==
    /\ sess.phase = "Verified"
    /\ ret' = secret_result(sess, flags, data, run)
    /\ UNCHANGED <<sess, firstOk, launch, snpvars>>

\* The caller drops the session it owns
drop ==
    /\ sess.phase # "None"
    /\ sess' = NoSession
    /\ ret' = Return("drop", TRUE, "", <<>>, <<>>, <<>>)
    /\ UNCHANGED <<firstOk, launch, snpvars>>

Next ==
    \/ \E policy \in Policies, run \in RngRuns(2) : try_from(policy, run)
    \/ \E chain \in Chains, eph \in EphKeys, run \in RngRuns(2) :
           start(chain, eph, run)
    \/ \E pdh \in Pdhs, eph \in EphKeys, run \in RngRuns(2) :
           start_pdh(pdh, eph, run)
    \/ measure
    \/ \E digest \in Digests, build \in Builds, msr \in Measurements :
           verify(digest, build, msr)
    \/ \E msr \in Measurements : mock_verify(msr)
    \/ \E data \in Chunks : update_data(data)
    \/ \E build \in Builds, msr \in Measurements : measuring_verify(build, msr)
    \/ \E build \in Builds, msr \in Measurements, digest \in Digests :
           verify_with_digest(build, msr, digest)
    \/ \E flags \in Flags, data \in Plaintexts, run \in RngRuns(1) :
           secret(flags, data, run)
    \/ drop

Spec == Init /\ [][Next]_vars

----------------------------------------------------------------------------
(* secret on plaintexts of any length *)

\* A session that verify has returned for the base launch
InitLen ==
    /\ launch = [tik |-> BaseTik, build |-> BaseBuild, policy |-> BasePolicy,
                 digest |-> BaseDigest, mnonce |-> BaseMNonce]
    /\ \E tek \in RandVals :
          LET s == Session("Initialized", BasePolicy, tek, BaseTik, <<>>,
                           "none", NoInput)
              msr == [measure |-> PlatformMeasure(BaseTik, BaseBuild,
                                     BasePolicy, BaseDigest, BaseMNonce),
                      mnonce |-> BaseMNonce]
              r == verify_result(s, BaseDigest, BaseBuild, msr)
              args == VerifyArgs(s, BaseDigest, BaseBuild, msr)
          IN  /\ r.ok
              /\ sess = r.sess
              /\ ret = Return("verify", r.ok, r.err, <<>>, args, <<>>)
              /\ firstOk = [set |-> TRUE, args |-> args]
    /\ report = NoReport
    /\ vres = NoVerify("openssl")
    /\ bf = Bitfield("GuestPolicy", Zero(U64Bits))
    /\ bres = NoBits

\* secret(flags, data) for data of len bytes: the lengths it works with
secret_sized(len) ==
    /\ sess.phase = "Verified"
    /\ ret' = Return("secret_sized", TRUE, "", <<>>, [len |-> len],
                     secret_lengths(len))
    /\ UNCHANGED <<sess, firstOk, launch, snpvars>>

NextLen == \E len \in Lengths : secret_sized(len)

SpecLen == InitLen /\ [][NextLen]_vars

----------------------------------------------------------------------------
(* Receiving and verifying an attestation report *)

\* The session side while reports and bitfield records are worked on
SessionIdle ==
    /\ sess = NoSession
    /\ ret = Return("none", TRUE, "", <<>>, <<>>, <<>>)
    /\ firstOk = NoCall
    /\ launch = [tik |-> BaseTik, build |-> BaseBuild, policy |-> BasePolicy,
                 digest |-> BaseDigest, mnonce |-> BaseMNonce]

InitReport ==
    /\ SessionIdle
    /\ report = DefaultReport
    /\ vres \in { NoVerify(b) : b \in Backends }
    /\ bf = Bitfield("GuestPolicy", Zero(U64Bits))
    /\ bres = NoBits

\* A report arrives from the guest
receive(r) ==
    /\ r # report
    /\ report' = r
    /\ vres' = NoVerify(vres.backend)
    /\ UNCHANGED <<svars, bf, bres>>

\* (&chain, &report).verify()
report_verify_chain(chain) ==
    /\ vres' = verify_chain_result(vres.backend, chain, report)
    /\ UNCHANGED <<svars, report, bf, bres>>

\* (&cert, &report).verify()
report_verify_cert(cert) ==
    /\ vres' = verify_cert_result(vres.backend, cert, report)
    /\ UNCHANGED <<svars, report, bf, bres>>

\* AttestationReport::default()
default_report ==
    /\ report' = DefaultReport
    /\ vres' = VerifyReturn(vres.backend, "default", TRUE, "", <<>>, "")
    /\ UNCHANGED <<svars, bf, bres>>

\* report.clone(): the caller goes on with the copy
report_clone ==
    /\ report' = clone_report(report)
    /\ vres' = VerifyReturn(vres.backend, "clone", TRUE, "", <<>>, "")
    /\ UNCHANGED <<svars, bf, bres>>

\* bincode::deserialize(&bincode::serialize(&report)): the caller goes on
\* with the report read back
report_roundtrip ==
    /\ LET d == deserialize_report(serialize_report(report))
       IN  /\ report' = IF d.ok THEN d.value ELSE report
           /\ vres' = VerifyReturn(vres.backend, "roundtrip", d.ok,
                                   IF d.ok THEN "" ELSE "serde", <<>>, "")
    /\ UNCHANGED <<svars, bf, bres>>

NextReport ==
    \/ default_report
    \/ report_clone
    \/ report_roundtrip
    \/ \E r \in Reports : receive(r)
    \/ \E chain \in SnpChains : report_verify_chain(chain)
    \/ \E cert \in Certificates : report_verify_cert(cert)

SpecReport == InitReport /\ [][NextReport]_vars

----------------------------------------------------------------------------
(* Working on a bitfield record *)

InitBits ==
    /\ SessionIdle
    /\ report = NoReport
    /\ vres = NoVerify("openssl")
    /\ bf \in { Bitfield(k, b) : k \in Kinds, b \in Samples(64) \cup Samples(32) }
    /\ Width(bf.bits) = KindBits(bf.kind)
    /\ bres = NoBits

\* r.set_X(v) for the field X of the record
set_field(f, v) ==
    /\ f \in Fields(bf.kind)
    /\ f.setter
    /\ bres.sets < MaxSets
    /\ bf' = [bf EXCEPT !.bits = set_bit_range(@, f.msb, f.lsb,
                                               Bits(v, KindBits(bf.kind)))]
    /\ bres' = BitReturn("set", f, v, <<>>, <<>>, bres.sets + 1)
    /\ UNCHANGED <<svars, report, vres>>

\* r.X() for the field X of the record
get_field(f) ==
    /\ f \in Fields(bf.kind)
    /\ bres' = BitReturn("get", f, 0, bit_range(bf.bits, f.msb, f.lsb), <<>>,
                         bres.sets)
    /\ UNCHANGED <<svars, report, vres, bf>>

\* u64::from(policy)
into_u64 ==
    /\ bf.kind = "GuestPolicy"
    /\ bres' = BitReturn("into_u64", NoField, 0, u64_from(bf), <<>>, bres.sets)
    /\ UNCHANGED <<svars, report, vres, bf>>

\* bincode::deserialize(&bincode::serialize(&r))
roundtrip ==
    /\ bf.kind # "GuestFieldSelect"
    /\ LET wire == serialize_bitfield(bf)
       IN  bres' = BitReturn("roundtrip", NoField, 0,
                             deserialize_bitfield(bf.kind, wire), wire,
                             bres.sets)
    /\ UNCHANGED <<svars, report, vres, bf>>

NextBits ==
    \/ \E f \in GuestFieldSelectFields \cup GuestPolicyFields, v \in SetValues :
           set_field(f, v)
    \/ \E f \in UNION { Fields(k) : k \in Kinds } : get_field(f)
    \/ into_u64
    \/ roundtrip

SpecBits == InitBits /\ [][NextBits]_vars

----------------------------------------------------------------------------
(* Properties *)

VerifyOps == { "verify", "measuring_verify", "verify_with_digest" }
StartOps == { "start", "start_pdh" }

\* HMAC-SHA-256 keyed by tik over 0x04, major, minor, build, the policy
\* bytes, the digest and the nonce of the measurement
MeasureOver(tik, build, policy, digest, mnonce) ==
    HMAC(tik, <<Lit(4)>> \o <<Lit(build.major)>> \o <<Lit(build.minor)>>
              \o <<Lit(build.build)>> \o bytes(policy) \o digest \o mnonce)

\* C1: secret is performed only on a Verified session, and a session is
\* Verified only after a verify call whose MAC comparison succeeded or after
\* mock_verify; no Secret packet comes from a session that is not Verified.
C1_SecretOnlyWhenVerified ==
    /\ ret.op = "secret" => sess.phase = "Verified"
    /\ sess.phase = "Verified" =>
         \/ sess.via = "mock_verify"
         \/ /\ sess.via = "verify"
            /\ sess.data.measure =
                 MeasureOver(sess.tik, sess.vin.build, sess.policy,
                             sess.vin.digest, sess.data.mnonce)

C1_Witness ==
    ret.op = "secret" /\ ret.ok /\ sess.phase = "Verified" /\ sess.via = "verify"

\* C2: the phase only moves forward along Initialized, Measuring, Verified:
\* measure, the three verify operations and mock_verify replace the session
\* by one in a later phase or by none, no operation yields an earlier phase,
\* and start, start_pdh, update_data and secret leave the phase unchanged.
C2_PhaseForward ==
    [][ /\ ret'.op \in VerifyOps \cup {"measure", "mock_verify"} =>
              \/ sess'.phase = "None"
              \/ Rank(sess'.phase) > Rank(sess.phase)
        /\ ret'.op \in StartOps \cup {"update_data", "secret"} =>
              sess'.phase = sess.phase
        /\ (sess.phase # "None" /\ sess'.phase # "None") =>
              Rank(sess'.phase) >= Rank(sess.phase) ]_vars

C2_Witness ==
    ret.op = "measuring_verify" /\ ret.ok /\ sess.phase = "Verified"

\* C3: verify(digest, build, msr) succeeds and returns a Verified session
\* holding exactly msr whenever msr.measure is the HMAC keyed by tik over
\* 0x04, major, minor, build, the policy bytes, digest and msr.mnonce.
C3_VerifyAcceptsMatchingMac ==
    (ret.op = "verify" /\
     ret.args.msr.measure = MeasureOver(ret.args.tik, ret.args.build,
                                        ret.args.policy, ret.args.digest,
                                        ret.args.msr.mnonce))
    => /\ ret.ok
       /\ sess.phase = "Verified"
       /\ sess.data = ret.args.msr

C3_Witness ==
    ret.op = "verify" /\ ret.ok /\ sess.phase = "Verified"
    /\ sess.data = ret.args.msr

\* C4: when the MAC computed by a verify operation differs from msr.measure
\* the call returns an error and the session is gone: no Verified session
\* exists, and the only thing the caller can do next is construct a session.
C4_MismatchIsTerminal ==
    [][ /\ (ret'.op \in VerifyOps /\
            verify_mac(ret'.args, ret'.args.digest, ret'.args.build,
                       ret'.args.msr) # ret'.args.msr.measure)
              => (~ret'.ok /\ sess' = NoSession)
        /\ (ret.op \in VerifyOps /\ ~ret.ok) => ret'.op = "try_from" ]_vars

C4_Witness ==
    /\ ret.op \in VerifyOps /\ ~ret.ok /\ sess = NoSession
    /\ verify_mac(ret.args, ret.args.digest, ret.args.build, ret.args.msr)
         # ret.args.msr.measure

\* The bytes of a verify call that the measurement binds besides the key:
\* digest, policy, firmware version and nonce
BoundBytes(a) ==
    a.digest \o bytes(a.policy)
    \o <<Lit(a.build.major), Lit(a.build.minor), Lit(a.build.build)>>
    \o a.msr.mnonce

\* Number of positions at which two byte strings of equal length differ
ByteDiff(x, y) == Cardinality({ i \in 1..Len(x) : x[i] # y[i] })

\* The most recent verify call differs from the successful call firstOk in
\* one byte of digest, policy, firmware version or nonce; key and measure
\* are the same
OneByteAltered ==
    /\ firstOk.set
    /\ ret.op \in VerifyOps
    /\ ret.args.tik = firstOk.args.tik
    /\ ret.args.msr.measure = firstOk.args.msr.measure
    /\ Len(BoundBytes(ret.args)) = Len(BoundBytes(firstOk.args))
    /\ ByteDiff(BoundBytes(ret.args), BoundBytes(firstOk.args)) = 1

\* C5: after a verify that succeeded, a verify with the same key and measure
\* but one byte of the digest, the policy, the firmware version or the nonce
\* altered fails and leaves no Verified session.
C5_SingleByteChangeRejected ==
    OneByteAltered => (~ret.ok /\ sess.phase # "Verified")

C5_Witness ==
    OneByteAltered /\ ~ret.ok /\ ret.args.policy # firstOk.args.policy

\* C6: mock_verify accepts any measurement, always succeeds and needs the
\* unsafe opt-in; every other way to a Verified session has compared the MAC,
\* and no other operation is unsafe or yields a session marked mock_verify.
C6_MockVerifyOnlyBypass ==
    /\ ret.op = "mock_verify" =>
          /\ ret.ok /\ ret.unsafe
          /\ sess.phase = "Verified" /\ sess.via = "mock_verify"
          /\ sess.data = ret.args.msr
    /\ ret.op # "mock_verify" => ~ret.unsafe
    /\ (ret.op \in VerifyOps /\ ret.ok) =>
          /\ sess.via = "verify"
          /\ ret.args.msr.measure =
               MeasureOver(ret.args.tik, ret.args.build, ret.args.policy,
                           ret.args.digest, ret.args.msr.mnonce)
    /\ (sess.phase = "Verified" /\ sess.via = "mock_verify") =>
          ret.op \in {"mock_verify", "secret"}

C6_Witness ==
    /\ ret.op = "mock_verify" /\ ret.ok /\ sess.phase = "Verified"
    /\ sess.tik # launch.tik

\* C7: the session descriptor of a Start packet is the function of policy,
\* tek, tik, nonce, iv and z that the key hierarchy defines: master from z
\* and nonce, kek and kik from master, wrap_tk the AES-128-CTR encryption of
\* tek followed by tik under kek and iv, wrap_mac the MAC of wrap_tk under
\* kik, policy_mac the MAC of the policy bytes under tik.
C7_DescriptorDerivation ==
    (ret.op \in StartOps /\ ret.ok) =>
        LET d == ret.out.session
            master == derive(ret.args.z, 16, d.nonce, LabelMaster)
            kek == derive(master, 16, <<>>, LabelKek)
            kik == derive(master, 16, <<>>, LabelKik)
            tk == sess.tek \o sess.tik
        IN  /\ Len(d.wrap_tk) = 32
            /\ d.wrap_tk = [i \in 1..Len(tk) |-> CtrByte(tk[i], kek, d.wrap_iv, i)]
            /\ d.wrap_mac = mac(kik, d.wrap_tk)
            /\ d.policy_mac = mac(sess.tik, bytes(sess.policy))
            /\ d.nonce = ret.draws[1]
            /\ d.wrap_iv = ret.draws[2]

C7_Witness ==
    ret.op = "start" /\ ret.ok /\ sess.tek # sess.tik

\* C8: every successful start or start_pdh has drawn two values from the
\* random source during the call, the first is the nonce of its packet and
\* the second its wrap_iv, also on a repeated call on the same session.
C8_FreshNonceAndIv ==
    (ret.op \in StartOps /\ ret.ok) =>
        /\ Len(ret.draws) = 2
        /\ ret.out.session.nonce = ret.draws[1]
        /\ ret.out.session.wrap_iv = ret.draws[2]

C8_Witness ==
    /\ ret.op \in StartOps /\ ret.ok /\ sess.starts = 2
    /\ ret.draws[1] # sess.tek /\ ret.draws[1] # ret.draws[2]

\* C9: the ciphertext that secret returns has exactly the length of the
\* plaintext.
C9_CiphertextLength ==
    (ret.op = "secret" /\ ret.ok) =>
        Len(ret.out.ciphertext) = Len(ret.args.data)

C9_Witness ==
    ret.op = "secret" /\ ret.ok /\ Len(ret.args.data) > 0

\* The four bytes of n as a little-endian u32
LittleEndian32(n) ==
    [i \in 1..4 |-> Lit((n \div (256 ^ (i - 1))) % 256)]

\* C10: the packet of secret carries the given flags and the iv drawn for
\* the call, its ciphertext is the AES-128-CTR encryption of the data under
\* tek and that iv, and its mac is the HMAC keyed by tik over 0x01, the flag
\* bytes, the iv, both lengths as little-endian u32, the ciphertext and the
\* session measurement.
C10_SecretPacket ==
    (ret.op = "secret" /\ ret.ok) =>
        LET h == ret.out.header
            ct == ret.out.ciphertext
            data == ret.args.data
        IN  /\ h.flags = ret.args.flags
            /\ h.iv = ret.draws[1]
            /\ ct = [i \in 1..Len(data) |-> CtrByte(data[i], sess.tek, h.iv, i)]
            /\ h.mac = HMAC(sess.tik,
                            <<Lit(1)>> \o LittleEndian32(ret.args.flags) \o h.iv
                            \o LittleEndian32(Len(data))
                            \o LittleEndian32(Len(ct))
                            \o ct \o sess.data.measure)

C10_Witness ==
    /\ ret.op = "secret" /\ ret.ok /\ Len(ret.args.data) = 2
    /\ ret.args.flags = 1 /\ sess.tek # sess.tik

----------------------------------------------------------------------------
(* Failures of the random source and of the chain *)

RngOps == { "try_from", "start", "start_pdh", "secret" }

\* The number of 16-byte values a call asks the random source for
Draws(op) == IF op = "secret" THEN 1 ELSE 2

\* s and t are the same session value (starts is not part of the value)
SameSession(s, t) == [s EXCEPT !.starts = 0] = [t EXCEPT !.starts = 0]

\* C11: a call of try_from, start, start_pdh or secret during which the
\* random source fails returns an error, has asked the source for nothing
\* after the failure, and returns no packet; try_from leaves the caller
\* without a session, the other three leave the session as it was, in the
\* same phase.  A call that succeeds has received every value it asked for.
C11_RngFailureAborts ==
    [][ /\ ret'.op \in RngOps /\ ret'.err = "rng"
           => /\ ~ret'.ok
              /\ ret'.out = <<>>
              /\ Len(ret'.draws) < Draws(ret'.op)
              /\ IF ret'.op = "try_from"
                 THEN sess.phase = "None" /\ sess' = NoSession
                 ELSE sess.phase # "None" /\ SameSession(sess, sess')
        /\ ret'.op \in RngOps /\ ret'.ok
           => Len(ret'.draws) = Draws(ret'.op) ]_vars

\* start has failed after the random source delivered the nonce and then
\* failed on the iv; the session is still there
C11_Witness ==
    /\ ret.op = "start" /\ ret.err = "rng" /\ Len(ret.draws) = 1
    /\ sess.phase = "Initialized"

\* C12: start on a chain that does not verify returns the trust error
\* whatever the ephemeral key and the random source would have been: it has
\* generated no key pair, drawn nothing and made no Start packet.
C12_ChainVerifiedFirst ==
    /\ sess.phase = "Initialized"
       => \A chain \in Chains, eph \in EphKeys, run \in RngRuns(2) :
              ~chain_verify(chain).ok
              => start_result(sess, chain, eph, run)
                   = [op |-> "start", ok |-> FALSE, err |-> "trust",
                      unsafe |-> FALSE, draws |-> <<>>, args |-> <<>>,
                      out |-> <<>>]
    /\ ret.op = "start" /\ ret.err = "trust"
       => ~ret.ok /\ ret.draws = <<>> /\ ret.out = <<>>

\* start has returned the trust error
C12_Witness ==
    /\ ret.op = "start" /\ ret.err = "trust" /\ ~ret.ok
    /\ sess.phase = "Initialized"

----------------------------------------------------------------------------
(* Verification of the attestation report *)

ReportVerifyOps == { "verify_chain", "verify_cert" }

\* The bytes of the signature field, in the order of its three members
SignatureField(r) == r.signature.r \o r.signature.s \o r.signature.reserved

\* The SHA-384 digest of the bytes [0, 0x2A0) of the serialization of r
PrefixDigest(r) == Out("sha384", <<SubSeq(serialize_report(r), 1, 672)>>, 48)

\* r and q differ in the signature field and in nothing else
OnlySignatureDiffers(r, q) ==
    r # q /\ [q EXCEPT !.signature = r.signature] = r

\* r and q differ in the reserved block after launch_tcb and in nothing else
OnlyReservedBlockDiffers(r, q) ==
    r # q /\ [q EXCEPT !.reserved_4 = r.reserved_4] = r

\* C13: the serialization of the report is 1184 bytes, its last 512 bytes
\* from offset 0x2A0 on are the signature field, a verification that hashes
\* computes the SHA-384 digest of the bytes [0, 0x2A0) and of no others, and
\* a report that differs from this one only in its signature bytes gets the
\* same digest.
C13_HashedPrefix ==
    /\ Len(serialize_report(report)) = 1184
    /\ SubSeq(serialize_report(report), 673, 1184) = SignatureField(report)
    /\ vres.digest # <<>> => vres.digest = PrefixDigest(report)
    /\ \A q \in Reports, cert \in Certificates :
          OnlySignatureDiffers(report, q)
          => verify_cert_result("openssl", cert, q).digest
               = verify_cert_result("openssl", cert, report).digest

\* A signed report has been hashed by a verification, and another report
\* differs from it only in the signature
C13_Witness ==
    /\ vres.op \in ReportVerifyOps /\ vres.digest # <<>>
    /\ report.signature # DefaultSignature
    /\ \E q \in Reports : OnlySignatureDiffers(report, q)

\* C14 as claimed: the hashed bytes end with launch_tcb, and a report that
\* differs from this one only in the 168 reserved bytes after launch_tcb
\* gets the same digest and the same verification result under the same key.
C14_ReservedBlockExcluded ==
    \A q \in Reports, cert \in Certificates, b \in Backends :
        OnlyReservedBlockDiffers(report, q)
        => /\ verify_cert_result(b, cert, q).digest
                = verify_cert_result(b, cert, report).digest
           /\ verify_cert_result(b, cert, q).ok
                = verify_cert_result(b, cert, report).ok

\* C14 amended: the bytes [0, 0x2A0) are the 504 bytes through launch_tcb
\* followed by the 168 reserved bytes, so the reserved block is hashed: a
\* report that differs from this one only in the reserved block gets a
\* different digest, and the two are never both accepted under one key.
C14_ReservedBlockCovered ==
    /\ SubSeq(serialize_report(report), 505, 672) = report.reserved_4
    /\ Len(report.reserved_4) = 168
    /\ vres.digest # <<>>
       => SubSeq(vres.digest[1].v[1], 505, 672) = report.reserved_4
    /\ \A q \in Reports, cert \in Certificates, b \in Backends :
          OnlyReservedBlockDiffers(report, q)
          => LET vq == verify_cert_result(b, cert, q)
                 vr == verify_cert_result(b, cert, report)
             IN  /\ vq.digest # <<>> /\ vr.digest # <<>>
                    => vq.digest # vr.digest
                 /\ ~(vq.ok /\ vr.ok)

\* A report whose reserved block was altered after the firmware signed it
\* has been rejected by the signature check
C14_Witness ==
    /\ vres.op \in ReportVerifyOps /\ vres.err = "verification"
    /\ report.reserved_4 # ZeroBytes(168)
    /\ report.signature = FirmwareSign("vekA", DefaultReport).signature
    /\ [report EXCEPT !.reserved_4 = ZeroBytes(168)]
         = FirmwareSign("vekA", DefaultReport)

\* The signature of r is the ECDSA signature under key of the digest
SignatureValid(r, key, digest) ==
    r.signature.r \o r.signature.s
      = Out("ecdsa", <<key, digest>>, 2 * SigScalarLen)

\* C15: a verification returns success only when the signature in the
\* report is valid under the leaf key over the SHA-384 digest of the signed
\* bytes; when the signature is not valid under that key, or the key is not
\* usable, it returns an error.
C15_SuccessOnlyOnValidSignature ==
    /\ vres.op \in ReportVerifyOps
       => /\ vres.ok => /\ vres.err = ""
                        /\ SignatureValid(report, vres.key, PrefixDigest(report))
          /\ ~vres.ok => vres.err # ""
    /\ report # NoReport
       => \A b \in Backends, cert \in Certificates :
              LET res == verify_cert_result(b, cert, report)
                  valid == cert.ec /\ SignatureValid(report, cert.key,
                                                     PrefixDigest(report))
              IN  /\ res.ok <=> valid
                  /\ ~valid => res.err # ""
                  /\ res.ok => res.key = cert.key

\* A verification has succeeded on a report signed by the firmware
C15_Witness ==
    /\ vres.op = "verify_cert" /\ vres.ok
    /\ report.signature # DefaultSignature
    /\ SignatureValid(report, vres.key, PrefixDigest(report))

\* C16: verification by a chain that does not validate returns the trust
\* error whatever the report is, so nothing of the report has been looked
\* at; by a chain that validates it returns what verification by the
\* chain's leaf certificate returns.
C16_ChainBeforeSignature ==
    /\ vres.op = "verify_chain" /\ vres.err = "trust"
       => ~vres.ok /\ vres.digest = <<>> /\ vres.key = ""
    /\ report # NoReport
       => \A b \in Backends, chain \in SnpChains :
              IF chain.ok
              THEN verify_chain_result(b, chain, report)
                     = [verify_cert_result(b, chain.vek, report)
                          EXCEPT !.op = "verify_chain"]
              ELSE \A q \in Reports :
                     verify_chain_result(b, chain, q)
                       = [backend |-> b, op |-> "verify_chain", ok |-> FALSE,
                          err |-> "trust", digest |-> <<>>, key |-> ""]

\* Verification by a chain that does not validate has returned the trust
\* error for a report whose signature is valid under the chain's leaf key
C16_Witness ==
    /\ vres.op = "verify_chain" /\ vres.err = "trust"
    /\ \E cert \in Certificates :
          cert.ec /\ SignatureValid(report, cert.key, PrefixDigest(report))

----------------------------------------------------------------------------
(* The bitfield records *)

\* Bit i of the number v, for v below 2^31
BitOf(v, i) == IF i < 31 THEN (v \div Pow2(i)) % 2 ELSE 0

\* C18: the u64 a GuestPolicy converts to has bit 17 set and every other
\* bit as the policy stores it, and the conversion leaves the policy as it
\* is.
C18_Bit17AlwaysSet ==
    [][ bres'.op = "into_u64"
        => /\ bres'.out[17] = 1
           /\ \A i \in (0..63) \ {17} : bres'.out[i] = bf.bits[i]
           /\ DOMAIN bres'.out = 0..63
           /\ bf' = bf ]_vars

\* The policy 0 has been converted
C18_Witness ==
    /\ bres.op = "into_u64" /\ bf.kind = "GuestPolicy"
    /\ bf.bits = [i \in 0..63 |-> 0]
    /\ bres.out[17] = 1

\* C19: serializing a GuestPolicy, PlatformInfo or KeyInfo and deserializing
\* the bytes gives the record back with every bit as it was; the bytes are
\* the 8 (KeyInfo: 4) bytes of the integer, low-order byte first.
C19_RoundTrip ==
    [][ bres'.op = "roundtrip"
        => /\ bres'.out.ok
           /\ bres'.out.value = bf
           /\ \A i \in DOMAIN bf.bits : bres'.out.value.bits[i] = bf.bits[i]
           /\ Len(bres'.wire) = IF bf.kind = "KeyInfo" THEN 4 ELSE 8
           /\ \A k \in 1..Len(bres'.wire), i \in 0..7 :
                 BitOf(bres'.wire[k], i) = bf.bits[8 * (k - 1) + i]
           /\ bf' = bf ]_vars

\* An all-ones record has gone through the round trip
C19_Witness ==
    /\ bres.op = "roundtrip" /\ bres.out.ok
    /\ \A i \in DOMAIN bf.bits : bf.bits[i] = 1
    /\ bres.out.value = bf

\* C20: the fields of a record do not overlap; a getter returns the bits of
\* its range, moved down to bit 0, and changes nothing; a setter called with
\* v writes the low-order bits of v into its range and leaves every bit
\* outside the range as it was, and the getter of the field then returns v
\* reduced to the width of the field.
C20_FieldFrame ==
    [][ /\ \A k \in Kinds : \A f, g \in Fields(k) :
              f # g => f.msb < g.lsb \/ g.msb < f.lsb
        /\ bres'.op = "get"
           => LET f == bres'.field
              IN  /\ \A i \in DOMAIN bf.bits :
                        bres'.out[i] = IF i <= f.msb - f.lsb
                                       THEN bf.bits[f.lsb + i] ELSE 0
                  /\ bf' = bf
        /\ bres'.op = "set"
           => LET f == bres'.field
                  v == bres'.v
              IN  /\ bf'.kind = bf.kind
                  /\ DOMAIN bf'.bits = DOMAIN bf.bits
                  /\ \A i \in DOMAIN bf.bits :
                        bf'.bits[i] = IF f.lsb <= i /\ i <= f.msb
                                      THEN BitOf(v, i - f.lsb)
                                      ELSE bf.bits[i]
                  /\ bit_range(bf'.bits, f.msb, f.lsb)
                       = Bits(v % Pow2(f.msb - f.lsb + 1), KindBits(bf.kind))
      ]_vars

\* A setter has been given a value wider than its field on a record whose
\* other bits are set
C20_Witness ==
    /\ bres.op = "set" /\ bres.field.name = "abi_minor" /\ bres.v = 510
    /\ bf.kind = "GuestPolicy"
    /\ bf.bits[17] = 1 /\ bf.bits[63] = 1 /\ bf.bits[8] = 1 /\ bf.bits[0] = 0

----------------------------------------------------------------------------
(* The report as a value *)

IntegerFields == { "version", "guest_svn", "vmpl", "sig_algo", "reserved_0" }
RecordFields == { "policy", "plat_info", "key_info" }
ByteFields == { "current_build", "current_minor", "current_major",
                "reserved_2", "committed_build", "committed_minor",
                "committed_major", "reserved_3" }
ArrayFields == { "family_id", "image_id", "current_tcb", "report_data",
                 "measurement", "host_data", "id_key_digest",
                 "author_key_digest", "report_id", "report_id_ma",
                 "reported_tcb", "reserved_1", "chip_id", "committed_tcb",
                 "launch_tcb", "reserved_4" }

AllZeroBytes(b) == \A i \in DOMAIN b : b[i] = [f |-> "lit", v |-> 0]

\* C21: the report that default() returns has zero in every named field,
\* in every reserved field and in R, S and the rest of the signature, and
\* its serialization is 1184 bytes, all of them zero.
C21_DefaultIsZero ==
    vres.op = "default"
    => /\ \A f \in IntegerFields : \A i \in DOMAIN report[f] : report[f][i] = 0
       /\ \A f \in RecordFields :
             \A i \in DOMAIN report[f].bits : report[f].bits[i] = 0
       /\ \A f \in ByteFields : report[f] = [f |-> "lit", v |-> 0]
       /\ \A f \in ArrayFields : AllZeroBytes(report[f])
       /\ AllZeroBytes(report.signature.r) /\ Len(report.signature.r) = 72
       /\ AllZeroBytes(report.signature.s) /\ Len(report.signature.s) = 72
       /\ AllZeroBytes(report.signature.reserved)
       /\ Len(serialize_report(report)) = 1184
       /\ AllZeroBytes(serialize_report(report))

\* default() has returned a report
C21_Witness ==
    /\ vres.op = "default" /\ vres.ok
    /\ Len(serialize_report(report)) = 1184

\* The other value of a byte, of a byte string (in its last byte) and of an
\* integer (in its low-order bit)
OtherByte(b) == IF b = [f |-> "lit", v |-> 0] THEN [f |-> "lit", v |-> 1]
                                             ELSE [f |-> "lit", v |-> 0]
OtherBytes(b) == [b EXCEPT ![Len(b)] = OtherByte(@)]
OtherBits(x) == [x EXCEPT ![0] = 1 - @]

\* The reports that differ from r in exactly one field
OneFieldAltered(r) ==
    { [r EXCEPT ![f] = OtherBits(@)] : f \in IntegerFields }
    \cup { [r EXCEPT ![f].bits = OtherBits(@)] : f \in RecordFields }
    \cup { [r EXCEPT ![f] = OtherByte(@)] : f \in ByteFields }
    \cup { [r EXCEPT ![f] = OtherBytes(@)] : f \in ArrayFields }
    \cup { [r EXCEPT !.signature.r = OtherBytes(@)],
           [r EXCEPT !.signature.s = OtherBytes(@)],
           [r EXCEPT !.signature.reserved = OtherBytes(@)] }

\* C22: a copy of a report, and the report read back from its
\* serialization, equal the report in every field, reserved fields and
\* signature included; two reports are equal under == exactly when they
\* agree in every field, so a difference in any one field, reserved or
\* not, makes them unequal.
C22_CopyAndRoundTrip ==
    [][ vres'.op \in { "clone", "roundtrip" }
        => /\ vres'.ok /\ report' = report
           /\ \A q \in {report} \cup OneFieldAltered(report) :
                 /\ clone_report(q) = q
                 /\ deserialize_report(serialize_report(q))
                      = [ok |-> TRUE, value |-> q]
                 /\ eq_report(q, q)
                 /\ q # report
                    => ~eq_report(report, q) /\ ~eq_report(q, report)
           /\ Cardinality(OneFieldAltered(report)) = 35
      ]_vars

\* A signed report with a byte set in the reserved block has been read back
\* from its serialization
C22_Witness ==
    /\ vres.op = "roundtrip" /\ vres.ok
    /\ ~AllZeroBytes(report.reserved_4)
    /\ report.signature # DefaultSignature
    /\ ~AllZeroBytes(report.signature.reserved)

----------------------------------------------------------------------------
(* Policy and keys of a session; the two ways to verify a measuring        *)
(* session; the two ways to start                                          *)

\* C23: policy, tek and tik of a session are those given to and drawn by
\* try_from and no operation changes them: every transition hands them on
\* unchanged, start and start_pdh put the policy of the session into the
\* packet and its MAC under tik into the descriptor, the three verify
\* operations compare against the MAC under tik over the session policy,
\* and secret encrypts under tek.
C23_PolicyAndKeysFixed ==
    [][ /\ (ret'.op = "try_from" /\ ret'.ok)
           => /\ sess'.policy = ret'.args.policy
              /\ sess'.tek = ret'.draws[1]
              /\ sess'.tik = ret'.draws[2]
        /\ (sess.phase # "None" /\ sess'.phase # "None")
           => /\ sess'.policy = sess.policy
              /\ sess'.tek = sess.tek
              /\ sess'.tik = sess.tik
        /\ (ret'.op \in StartOps /\ ret'.ok)
           => /\ ret'.out.policy = sess.policy
              /\ ret'.out.session.policy_mac
                   = HMAC(sess.tik, bytes(sess.policy))
              /\ \E kek \in { derive(derive(ret'.args.z, 16, ret'.draws[1],
                                            LabelMaster), 16, <<>>, LabelKek) } :
                   ret'.out.session.wrap_tk
                     = [i \in 1..32 |->
                          CtrByte((sess.tek \o sess.tik)[i], kek,
                                  ret'.draws[2], i)]
        /\ ret'.op \in VerifyOps
           => (ret'.ok <=> ret'.args.msr.measure
                             = MeasureOver(sess.tik, ret'.args.build,
                                           sess.policy, ret'.args.digest,
                                           ret'.args.msr.mnonce))
        /\ (ret'.op = "secret" /\ ret'.ok)
           => ret'.out.ciphertext
                = [i \in 1..Len(ret'.args.data) |->
                     CtrByte(ret'.args.data[i], sess.tek,
                             ret'.out.header.iv, i)]
      ]_vars

\* A session with a policy other than the default and two different keys
\* has gone through measure and a verify and has encrypted a secret
C23_Witness ==
    /\ ret.op = "secret" /\ ret.ok /\ Len(ret.args.data) > 0
    /\ sess.via = "verify"
    /\ sess.tek # sess.tik
    /\ sess.policy # [flags |-> 0, major |-> 0, minor |-> 0]

\* The bytes a hasher has taken in after the update_data calls of f
RECURSIVE Fed(_)
Fed(f) ==
    IF f = <<>> THEN <<>>
    ELSE Fed(SubSeq(f, 1, Len(f) - 1)) \o f[Len(f)]

\* The ways to feed data to a measuring session: sequences of chunks
Feeds ==
    { f \in UNION { [1..n -> Chunks] : n \in 0..MaxData } :
        Len(Fed(f)) <= MaxData }

\* g feeds the chunks of f in another order
Reordered(f, g) ==
    /\ g # f
    /\ Len(g) = Len(f)
    /\ \A c \in Chunks : Cardinality({ i \in DOMAIN f : f[i] = c })
                          = Cardinality({ i \in DOMAIN g : g[i] = c })

\* The byte strings that sessions can have been fed
FedData == { Fed(f) : f \in Feeds }

\* The pairs of byte strings fed by the same chunks in two orders
ReorderedData ==
    UNION { { <<Fed(f), Fed(g)>> : g \in { h \in Feeds : Reordered(f, h) } } :
            f \in Feeds }

InitializedLike(s) ==
    [phase |-> "Initialized", policy |-> s.policy, tek |-> s.tek,
     tik |-> s.tik, data |-> <<>>, via |-> "none",
     vin |-> [digest |-> <<>>, build |-> <<>>], starts |-> 0]

\* C24 as stated: the chunks of a measuring session fed in any other order
\* give a different digest and a different outcome of verify.
C24_ReorderChangesOutcome ==
    sess.phase = "Measuring"
    => \A p \in ReorderedData :
           p[1] = sess.data
           => /\ Sha256(p[2]) # Sha256(sess.data)
              /\ \A build \in Builds, msr \in Measurements :
                   measuring_verify_result(sess, build, msr).ok
                     # measuring_verify_result([sess EXCEPT !.data = p[2]],
                                               build, msr).ok

\* C24: measure starts with no data and update_data appends its bytes to
\* what was fed before; verify on a measuring session returns what verify
\* on an initialized session with the same policy, tek and tik returns for
\* the SHA-256 of the bytes fed, of the empty string when nothing was fed;
\* the same chunks in another order that changes the bytes fed give another
\* digest, and no measurement is accepted for both orders.
C24_MeasuringVerify ==
    [][ /\ ret'.op = "measure" => sess'.data = <<>>
        /\ ret'.op = "update_data"
           => sess'.data = sess.data \o ret'.args.data
        /\ ret'.op = "measuring_verify"
           => /\ \E r \in { verify_result(InitializedLike(sess),
                                          Sha256(sess.data), ret'.args.build,
                                          ret'.args.msr) } :
                    /\ ret'.ok = r.ok /\ ret'.err = r.err /\ sess' = r.sess
              /\ ret'.args.digest = Sha256(sess.data)
              /\ \A p \in ReorderedData :
                   (p[1] = sess.data /\ p[2] # p[1])
                   => /\ Sha256(p[2]) # Sha256(sess.data)
                      /\ ~(/\ ret'.ok
                           /\ measuring_verify_result(
                                  [sess EXCEPT !.data = p[2]],
                                  ret'.args.build, ret'.args.msr).ok)
      ]_vars

\* verify on a measuring session has accepted the digest of two chunks
\* that can be fed in the other order
C24_Witness ==
    /\ ret.op = "measuring_verify" /\ ret.ok
    /\ ret.args.digest = Sha256(<<Lit(1), Lit(2), Lit(3)>>)
    /\ sess.phase = "Verified"

\* C25: verify_with_digest returns the same for every data fed to the
\* session before, and accepts or rejects the same for every tek: the
\* outcome is that of verify with policy, tik, build, measurement and the
\* digest of the caller.
C25_DigestOverridesData ==
    [][ ret'.op = "verify_with_digest"
        => /\ \A data \in FedData :
                \E r \in { verify_with_digest_result(
                               [sess EXCEPT !.data = data], ret'.args.build,
                               ret'.args.msr, ret'.args.digest) } :
                    /\ r.ok = ret'.ok /\ r.err = ret'.err /\ r.sess = sess'
           /\ \A tek \in RandVals :
                verify_with_digest_result([sess EXCEPT !.tek = tek],
                                          ret'.args.build, ret'.args.msr,
                                          ret'.args.digest).ok = ret'.ok
           /\ ret'.ok <=> ret'.args.msr.measure
                            = MeasureOver(sess.tik, ret'.args.build,
                                          sess.policy, ret'.args.digest,
                                          ret'.args.msr.mnonce)
      ]_vars

\* A measuring session that has been fed three bytes, for which
\* verify_with_digest accepts the digest of no data
C25_Witness ==
    /\ sess.phase = "Measuring" /\ Len(sess.data) = 3
    /\ ret.op = "update_data"
    /\ \E build \in Builds, msr \in Measurements :
           /\ verify_with_digest_result(sess, build, msr, Sha256(<<>>)).ok
           /\ ~measuring_verify_result(sess, build, msr).ok

\* C26: on every session that try_from returns, start_pdh never fails with
\* a trust error, start fails with it for every chain that does not verify,
\* and for a chain that verifies start returns what start_pdh returns for
\* the pdh of the chain with the same ephemeral key and the same draws of
\* nonce and iv: the same Start packet or the same error.
C26_StartPdhLikeStart ==
    (ret.op = "try_from" /\ ret.ok)
    => \A chain \in Chains, eph \in EphKeys, run \in RngRuns(2) :
           \E a \in { start_result(sess, chain, eph, run) },
              b \in { start_pdh_result(sess, chain.pdh, eph, run) } :
               /\ b.err # "trust"
               /\ ~chain.ok => ~a.ok /\ a.err = "trust" /\ a.draws = <<>>
               /\ chain.ok => /\ a.ok = b.ok /\ a.err = b.err
                              /\ a.out = b.out /\ a.draws = b.draws
                              /\ a.args = b.args
                              /\ a.op = "start" /\ b.op = "start_pdh"

\* start_pdh has returned a packet, with different nonce and iv, that start
\* returns for a valid chain with the same pdh
C26_Witness ==
    /\ ret.op = "start_pdh" /\ ret.ok
    /\ ret.draws[1] # ret.draws[2]
    /\ \E chain \in Chains :
           /\ chain.ok
           /\ start_result(sess, chain, ret.out.cert.key,
                           [ok |-> TRUE, vals |-> ret.draws]).out = ret.out

----------------------------------------------------------------------------
(* Lengths in secret and in the key wrap *)

\* The byte k (0 is the first) of the little-endian form of x
ByteOf(x, k) ==
    [f |-> "lit",
     v |-> x[8 * k] + 2 * x[8 * k + 1] + 4 * x[8 * k + 2] + 8 * x[8 * k + 3]
           + 16 * x[8 * k + 4] + 32 * x[8 * k + 5] + 64 * x[8 * k + 6]
           + 128 * x[8 * k + 7]]

\* x mod 2^32 as a value of 64 bits
Mod2p32(x) == [i \in DOMAIN x |-> IF i < 32 THEN x[i] ELSE 0]

C28_WrapFillsBuffer ==
    /\ sess.phase # "None" => Len(sess.tek) = 16 /\ Len(sess.tik) = 16
    /\ ret.op \in StartOps => ret.err # "panic"
    /\ (ret.op \in StartOps /\ ret.ok)
       => /\ Len(ret.out.session.wrap_tk) = 32
          /\ \A i \in 1..32 :
               /\ ret.out.session.wrap_tk[i].f = "ctr"
               /\ ret.out.session.wrap_tk[i].v[1] = (sess.tek \o sess.tik)[i]

\* The second start call on a session has returned a packet
C28_Witness ==
    /\ ret.op \in StartOps /\ ret.ok /\ sess.starts = 2
    /\ Len(ret.out.session.wrap_tk) = Len(sess.tek) + Len(sess.tik)
    /\ sess.tek # sess.tik

====
